---------------------------- MODULE Spec2Model ----------------------------
(***************************************************************************)
(* A model of financoor: the on-chain TaxVerifier registry                 *)
(* (contracts/src/TaxVerifier.sol, MockSP1Verifier.sol), the proof job     *)
(* manager's submit/poll contract and the web client's polling loop        *)
(* (apps/web/src/lib/api.ts), the tax computation engine as the web        *)
(* client's TaxPanel calls it (components/wizard/wallets-step.tsx), the    *)
(* demo contracts DemoToken, YieldFarm and ProfitMachine, and the web      *)
(* client's session store, setup wizard, verify page and create-club       *)
(* modal.                                                                  *)
(*                                                                         *)
(* Conventions.  A Solidity `bytes` value is a sequence of 32-byte words,  *)
(* each word a natural number; its length in bytes is 32 * Len.  An        *)
(* address and a bytes32 are small naturals.  A transaction is one atomic  *)
(* action; the variable tx holds the receipt of the latest one together    *)
(* with the registry as it was before it.                                  *)
(***************************************************************************)
EXTENDS Integers, Sequences, FiniteSets, TLC

(***************************************************************************)
(* Bounds of the model.                                                    *)
(***************************************************************************)
\* Distinct ledger commitments (registry keys) the callers submit.
MaxCommitments == 2
\* The last block time the chain reaches.
MaxTime == 2
\* Transactions sent to the registry in one behaviour.
MaxTx == 2
\* Proof jobs the job manager accepts in one behaviour.
MaxJobs == 2
\* Status requests one invocation of the polling loop sends.
MaxPolls == 2
\* Rows of the session's ledger.
MaxRows == 2
\* Transactions sent to DemoToken and YieldFarm in one behaviour.
MaxCalls == 3
\* The last block the chain reaches.
MaxBlock == 3

\* Ids generateId returns before the model stops adding wallets and groups.
MaxIds == 4

\* Seconds Date.now() advances before the model stops the clock.
MaxClock == 9

(***************************************************************************)
(* Program constants.                                                      *)
(***************************************************************************)
\* TAX_ZK_VKEY of the deployment script, abstracted to a small number.
TAX_ZK_VKEY == 1
\* The width of the userType field of the public values (uint8).
UserTypeBits == 8

Commitments == 1..MaxCommitments
\* Two externally owned accounts.
Callers == {1, 2}
\* Verification keys: the tax-zk program's and one of another program.
VKeys == {TAX_ZK_VKEY, TAX_ZK_VKEY + 1}
\* The verifier contracts a TaxVerifier is deployed against.
Verifiers == {"MockSP1Verifier", "SP1Verifier"}

\* bytes: the empty value.
EmptyBytes == << >>

(***************************************************************************)
(* abi.encode / abi.decode of (bytes32, uint256, uint8, bool).             *)
(***************************************************************************)
BoolWord(b) == IF b THEN 1 ELSE 0

AbiEncode(c, t, u, p) == <<c, t, u, BoolWord(p)>>

\* abi.decode reverts when the data is shorter than the four head words, when
\* the uint8 word has bits above the low 8, or when the bool word is not 0/1.
\* Bytes after the fourth word are ignored.
AbiDecodable(publicValues) ==
    /\ Len(publicValues) >= 4
    /\ publicValues[3] < 2 ^ UserTypeBits
    /\ publicValues[4] \in {0, 1}

AbiDecode(publicValues) ==
    [ledgerCommitment |-> publicValues[1],
     totalTaxPaisa    |-> publicValues[2],
     userType         |-> publicValues[3],
     used44ada        |-> publicValues[4] = 1]

(***************************************************************************)
(* The values a transaction's publicValues argument is drawn from.         *)
(***************************************************************************)
\* Exactly four words.  For each commitment two tuples: a total of 5 paisa for
\* user type 1 (huf) without the 44ADA flag, and a total of 9 paisa with the
\* flag for a user type, 3, that fits a uint8 and is no code of the enum.
WellSized ==
    {AbiEncode(c, 5, 1, FALSE) : c \in Commitments}
        \cup {AbiEncode(c, 9, 3, TRUE) : c \in Commitments}

\* Too short (empty, three words), a userType word that does not fit a uint8,
\* a bool word that is neither 0 nor 1.
Malformed ==
    LET base == AbiEncode(1, 5, 1, TRUE) IN
    {SubSeq(base, 1, n) : n \in {0, 3}}
        \cup {<<1, 5, 2 ^ UserTypeBits, 1>>, <<1, 5, 1, 2>>}

\* Longer than the four fields: one or two trailing words.
Oversized ==
    {AbiEncode(2, 5, 1, FALSE) \o <<7>>, AbiEncode(1, 9, 3, TRUE) \o <<7, 7>>}

PublicValuesInputs == WellSized \cup Malformed \cup Oversized

VARIABLES
    verifier,     \* TaxVerifier.verifier (immutable)
    taxZkVkey,    \* TaxVerifier.taxZkVkey (immutable)
    taxRecords,   \* TaxVerifier.taxRecords
    now,          \* block.timestamp of the current block
    deployed,     \* the constructor's arguments
    succeeded,    \* commitments of the verifyTaxProof calls that completed
    tx            \* the latest transaction: arguments, pre-state and receipt

regVars == <<verifier, taxZkVkey, taxRecords, now, deployed, succeeded, tx>>

VARIABLES
    jobs,         \* the job manager's registry: job id -> job
    issued,       \* job ids that a submit call has returned
    finished,     \* job ids whose proving run has ended (the worker's report)
    seen,         \* per job id, the latest response to a status query
    client        \* one caller of generateProofWithPolling and what it has sent

jobVars == <<jobs, issued, finished, seen, client>>

VARIABLES
    session,      \* SessionProvider's session (SessionState)
    breakdown,    \* TaxPanel's breakdown state (null until a calculation)
    panelError,   \* TaxPanel's error state
    calculated    \* the request of the calculation that produced breakdown

taxVars == <<session, breakdown, panelError, calculated>>

VARIABLES
    blockNumber,  \* block.number
    totalSupply,  \* DemoToken.totalSupply
    balanceOf,    \* DemoToken.balanceOf
    allowance,    \* DemoToken.allowance[owner][spender], spender a contract
    stakes,       \* YieldFarm.stakes
    rewarded,     \* per staker, the rewards YieldFarm has minted to it
    accrued,      \* per staker, the sum over past blocks of amount * REWARD_RATE
    call          \* the latest token or farm transaction and its receipt

farmVars ==
    <<blockNumber, totalSupply, balanceOf, allowance, stakes, rewarded,
      accrued, call>>

VARIABLES
    isConnected,      \* useAccount().isConnected
    dismissedStatus,  \* VerifyPage's dismissedStatus state
    manualError,      \* VerifyPage's manualError state
    write,            \* useWriteContract: status, data (txHash), variables
    sentTxs           \* per hash, the transaction broadcast and its receipt

verifyVars == <<isConnected, dismissedStatus, manualError, write, sentTxs>>

VARIABLES
    localStorage,     \* the session saved under STORAGE_KEY
    nextId,           \* the number of ids generateId has returned, plus one
    storeOp           \* the latest operation of the session store

storeVars == <<localStorage, nextId, storeOp>>

VARIABLES
    currentStep,      \* Wizard's currentStep state
    wizardComplete,   \* AppPage's wizardComplete state
    completed         \* the call of onComplete and the session it saw

wizardVars == <<currentStep, wizardComplete, completed>>

VARIABLES
    step,             \* CreateClubModal's step state
    secret,           \* whether a secret has been generated
    commitment,       \* whether the commitment hash has been stored
    waitEndTime,      \* the end of the waiting period
    dateNow,          \* Date.now()
    minCommitmentAge, \* the minCommitmentAge query's data
    commitTx,         \* the commit write and its receipt query
    registerTx,       \* the register write and its receipt query
    observedAt,       \* when the effect saw the commit confirmed
    registerSent      \* the latest call of writeRegister

clubVars ==
    <<step, secret, commitment, waitEndTime, dateNow, minCommitmentAge,
      commitTx, registerTx, observedAt, registerSent>>

\* The state of the web app's pages.
pageVars == <<verifyVars, wizardVars, clubVars>>

\* The state of the web app outside the tax panel.
appVars == <<storeVars, pageVars>>

vars == <<regVars, jobVars, taxVars, farmVars, appVars>>

\* The zero value of struct TaxRecord: what an unwritten mapping slot reads as.
ZeroRecord ==
    [totalTaxPaisa |-> 0, userType |-> 0, used44ada |-> FALSE,
     verifiedAt |-> 0, verifiedBy |-> 0]


(***************************************************************************)
(* The external proof verifier (ISP1Verifier.verifyProof).                 *)
(***************************************************************************)
\* proofBytes is modelled by the statement it attests: a program (its
\* verification key) and that program's committed public values.
Proof(k, q) == [vkey |-> k, publicValues |-> q]

\* What the tax-zk program commits: a well-formed tuple with a user type of
\* the enum.  Another program may commit anything.
TaxProgramOutputs ==
    {q \in PublicValuesInputs :
        Len(q) = 4 /\ AbiDecodable(q) /\ AbiDecode(q).userType \in {0, 1, 2}}

Provable(proof) ==
    proof.vkey = TAX_ZK_VKEY => proof.publicValues \in TaxProgramOutputs

\* The proofs a caller may hold when submitting publicValues.
ProofInputs(publicValues) ==
    {proof \in {Proof(k, publicValues) : k \in VKeys} : Provable(proof)}
        \cup {Proof(TAX_ZK_VKEY, AbiEncode(1, 5, 1, FALSE))}

\* MockSP1Verifier.verifyProof: never reverts.
MockVerifyProof(vkey, publicValues, proofBytes) == TRUE

\* The SP1 verifier: reverts unless the proof attests this key and these
\* public values.
SP1VerifyProof(vkey, publicValues, proofBytes) ==
    /\ proofBytes.vkey = vkey
    /\ proofBytes.publicValues = publicValues

\* TRUE when verifier.verifyProof returns, FALSE when it reverts.
VerifyProof(vkey, publicValues, proofBytes) ==
    IF verifier = "MockSP1Verifier"
    THEN MockVerifyProof(vkey, publicValues, proofBytes)
    ELSE SP1VerifyProof(vkey, publicValues, proofBytes)

(***************************************************************************)
(* TaxVerifier.                                                            *)
(***************************************************************************)
\* Mutant: the key is hardcoded instead of taken from the argument.
Constructor_HardcodedKey(_verifier, _taxZkVkey) ==
    [verifier |-> _verifier, taxZkVkey |-> TAX_ZK_VKEY]

Constructor(_verifier, _taxZkVkey) ==
    [verifier |-> _verifier, taxZkVkey |-> _taxZkVkey]

\* The call verifyTaxProof makes to the external verifier.
VerifierCall(vkey, publicValues, proofBytes) ==
    [vkey |-> vkey, publicValues |-> publicValues, proofBytes |-> proofBytes]

\* A reverted transaction: storage as before, no logs.
Reverted(calls) ==
    [status |-> "reverted", taxRecords |-> taxRecords, logs |-> << >>,
     calls |-> calls]

\* Mutant: the event's userType is left at its default.
TaxProofVerified_DropsUserType(d, msgSender) ==
    [ledgerCommitment |-> d.ledgerCommitment,
     totalTaxPaisa    |-> d.totalTaxPaisa,
     userType         |-> 0,
     used44ada        |-> d.used44ada,
     verifiedBy       |-> msgSender]

TaxProofVerified(d, msgSender) ==
    [ledgerCommitment |-> d.ledgerCommitment,
     totalTaxPaisa    |-> d.totalTaxPaisa,
     userType         |-> d.userType,
     used44ada        |-> d.used44ada,
     verifiedBy       |-> msgSender]

\* Mutant: the 44ADA flag is not copied into the record.
TaxRecord_DropsFlag(d, blockTimestamp, msgSender) ==
    [totalTaxPaisa |-> d.totalTaxPaisa,
     userType      |-> d.userType,
     used44ada     |-> FALSE,
     verifiedAt    |-> blockTimestamp,
     verifiedBy    |-> msgSender]

TaxRecord(d, blockTimestamp, msgSender) ==
    [totalTaxPaisa |-> d.totalTaxPaisa,
     userType      |-> d.userType,
     used44ada     |-> d.used44ada,
     verifiedAt    |-> blockTimestamp,
     verifiedBy    |-> msgSender]

\* Mutant: the store rewrites the whole mapping.
Stored_ResetsOthers(d, blockTimestamp, msgSender, calls) ==
    [status     |-> "success",
     taxRecords |-> [c \in Commitments |->
                        IF c = d.ledgerCommitment
                            THEN TaxRecord(d, blockTimestamp, msgSender)
                            ELSE ZeroRecord],
     logs       |-> <<TaxProofVerified(d, msgSender)>>,
     calls      |-> calls]

\* The store and the event of a call that got past the verifier and the decoder.
Stored(d, blockTimestamp, msgSender, calls) ==
    [status     |-> "success",
     taxRecords |-> [taxRecords EXCEPT
                        ![d.ledgerCommitment] =
                            TaxRecord(d, blockTimestamp, msgSender)],
     logs       |-> <<TaxProofVerified(d, msgSender)>>,
     calls      |-> calls]

\* Mutant: the verifier's revert is swallowed (a try/catch, a low-level call).
verifyTaxProof_IgnoresVerifier(msgSender, blockTimestamp, proofBytes, publicValues) ==
    LET calls == <<VerifierCall(taxZkVkey, publicValues, proofBytes)>> IN
    IF ~AbiDecodable(publicValues)
    THEN Reverted(calls)
    ELSE Stored(AbiDecode(publicValues), blockTimestamp, msgSender, calls)

\* Mutant: the decoder checks the length only and stores unvalidated words.
verifyTaxProof_DecodeUnchecked(msgSender, blockTimestamp, proofBytes, publicValues) ==
    LET calls == <<VerifierCall(taxZkVkey, publicValues, proofBytes)>> IN
    IF ~VerifyProof(taxZkVkey, publicValues, proofBytes)
    THEN Reverted(calls)
    ELSE IF Len(publicValues) < 4
    THEN Reverted(calls)
    ELSE Stored(AbiDecode(publicValues), blockTimestamp, msgSender, calls)

\* Mutant: a recorded commitment may be verified again by its recorder only.
verifyTaxProof_FirstRecorderOnly(msgSender, blockTimestamp, proofBytes, publicValues) ==
    LET calls == <<VerifierCall(taxZkVkey, publicValues, proofBytes)>> IN
    IF ~VerifyProof(taxZkVkey, publicValues, proofBytes)
    THEN Reverted(calls)
    ELSE IF ~AbiDecodable(publicValues)
    THEN Reverted(calls)
    ELSE LET d == AbiDecode(publicValues)
             old == taxRecords[d.ledgerCommitment] IN
         IF old.verifiedAt > 0 /\ old.verifiedBy # msgSender
         THEN Reverted(calls)
         ELSE Stored(d, blockTimestamp, msgSender, calls)

\* verifyTaxProof: the receipt (status, logs), the storage it leaves and the
\* external calls it made.
verifyTaxProof(msgSender, blockTimestamp, proofBytes, publicValues) ==
    LET calls == <<VerifierCall(taxZkVkey, publicValues, proofBytes)>> IN
    IF ~VerifyProof(taxZkVkey, publicValues, proofBytes)
    THEN Reverted(calls)
    ELSE IF ~AbiDecodable(publicValues)
    THEN Reverted(calls)
    ELSE Stored(AbiDecode(publicValues), blockTimestamp, msgSender, calls)

\* Mutant: >= for >.
isVerified_NonStrict(ledgerCommitment) ==
    taxRecords[ledgerCommitment].verifiedAt >= 0

isVerified(ledgerCommitment) == taxRecords[ledgerCommitment].verifiedAt > 0

getTaxRecord(ledgerCommitment) == taxRecords[ledgerCommitment]

\* No transaction yet.
NoTx ==
    [n |-> 0, caller |-> 0, time |-> 0, proofBytes |-> Proof(0, EmptyBytes),
     publicValues |-> EmptyBytes, pre |-> [c \in Commitments |-> ZeroRecord],
     status |-> "none", logs |-> << >>, calls |-> << >>, accepted |-> FALSE]

\* Deployment: new TaxVerifier(_verifier, _taxZkVkey) in a block of nonzero time.
RegistryInit ==
    \E v \in Verifiers, k \in VKeys :
        LET c == Constructor(v, k) IN
        /\ verifier = c.verifier
        /\ taxZkVkey = c.taxZkVkey
        /\ deployed = [verifier |-> v, taxZkVkey |-> k]
        /\ taxRecords = [x \in Commitments |-> ZeroRecord]
        /\ now = 1
        /\ succeeded = {}
        /\ tx = NoTx

\* A transaction calling verifyTaxProof.
TxVerifyTaxProof ==
    /\ tx.n < MaxTx
    /\ \E msgSender \in Callers, publicValues \in PublicValuesInputs :
       \E proofBytes \in ProofInputs(publicValues) :
        LET r == verifyTaxProof(msgSender, now, proofBytes, publicValues) IN
        /\ taxRecords' = r.taxRecords
        /\ succeeded' = IF r.status = "success"
                        THEN succeeded \cup {AbiDecode(publicValues).ledgerCommitment}
                        ELSE succeeded
        /\ tx' = [n |-> tx.n + 1, caller |-> msgSender, time |-> now,
                  proofBytes |-> proofBytes, publicValues |-> publicValues,
                  pre |-> taxRecords, status |-> r.status, logs |-> r.logs,
                  calls |-> r.calls,
                  accepted |-> VerifyProof(taxZkVkey, publicValues, proofBytes)]
        /\ UNCHANGED <<verifier, taxZkVkey, now, deployed>>
        /\ UNCHANGED <<jobVars, taxVars, farmVars, appVars>>

\* The chain produces the next block.
NewBlock ==
    /\ now < MaxTime
    /\ now' = now + 1
    /\ UNCHANGED <<verifier, taxZkVkey, taxRecords, deployed, succeeded, tx>>
    /\ UNCHANGED <<jobVars, taxVars, farmVars, appVars>>

\* The deployment of the repository's script: the SP1 verifier and TAX_ZK_VKEY.
RegistryDeployed ==
    /\ verifier = "SP1Verifier"
    /\ taxZkVkey = TAX_ZK_VKEY
    /\ deployed = [verifier |-> "SP1Verifier", taxZkVkey |-> TAX_ZK_VKEY]
    /\ taxRecords = [x \in Commitments |-> ZeroRecord]
    /\ now = 1
    /\ succeeded = {}
    /\ tx = NoTx

(***************************************************************************)
(* The Proof Job Manager: submit, status and the background worker.        *)
(***************************************************************************)
JobIds == 1..MaxJobs
\* An id the job manager never issues.
UnknownId == 0

\* A ProofRequest: the ledger it is about, and whether it passes validation.
Requests == [ledger : {"A", "B"}, valid : BOOLEAN]
NoRequest == [ledger |-> "none", valid |-> FALSE]

\* The ProofResult the proving backend produces for a request; undefined.
ProofResult(request) == [ledger_commitment |-> request.ledger]
NoResult == [ledger_commitment |-> "undefined"]

\* Messages of a failed proving run.
ErrorMessages == {"", "prover crashed"}

NoJob == [status |-> "absent", request |-> NoRequest, result |-> NoResult,
          error |-> ""]

\* Mutant: the proving run is done inside submit.
NewJob_Synchronous(request) ==
    [status |-> "done", request |-> request, result |-> ProofResult(request),
     error |-> ""]

\* status=pending immediately.
NewJob(request) ==
    [status |-> "pending", request |-> request, result |-> NoResult,
     error |-> ""]

\* submit(request): validation runs first and rejects before any job exists;
\* otherwise a job with a new id is registered.  The HTTP response and the
\* registry after it.
Submit(request, id) ==
    IF ~request.valid
    THEN [response |-> [ok |-> FALSE, job_id |-> UnknownId,
                        error |-> "validation"],
          jobs |-> jobs]
    ELSE [response |-> [ok |-> TRUE, job_id |-> id, error |-> ""],
          jobs |-> [jobs EXCEPT ![id] = NewJob(request)]]

\* Mutant: an id without a job is answered as a job still pending.
Status_DefaultsPending(id) ==
    IF id \notin JobIds \/ jobs[id].status = "absent"
    THEN [ok |-> TRUE, job_id |-> id, status |-> "pending",
          result |-> NoResult, error |-> ""]
    ELSE [ok |-> TRUE, job_id |-> id, status |-> jobs[id].status,
          result |-> jobs[id].result, error |-> jobs[id].error]

\* status(job_id): the job, or NotFound for an id that was never issued.
Status(id) ==
    IF id \notin JobIds \/ jobs[id].status = "absent"
    THEN [ok |-> FALSE, job_id |-> id, status |-> "NotFound",
          result |-> NoResult, error |-> "NotFound"]
    ELSE [ok |-> TRUE, job_id |-> id, status |-> jobs[id].status,
          result |-> jobs[id].result, error |-> jobs[id].error]

\* Mutant: the worker may report on a job that has already ended.
CanComplete_Unguarded(job) == job.status # "absent"

\* The guard of a job's transition: it happens once, out of pending.
CanComplete(job) == job.status = "pending"

\* The one transition of a job: done with the result, or error with a message.
Completed(job, outcome, message) ==
    IF outcome = "done"
    THEN [job EXCEPT !.status = "done", !.result = ProofResult(job.request)]
    ELSE [job EXCEPT !.status = "error", !.error = message]

Unqueried ==
    [ok |-> FALSE, job_id |-> UnknownId, status |-> "unqueried",
     result |-> NoResult, error |-> ""]

(***************************************************************************)
(* The web client: submitProofJob, getProofStatus and the loop of          *)
(* generateProofWithPolling.                                               *)
(***************************************************************************)
\* a || b on strings.
OrElse(a, b) == IF a # "" THEN a ELSE b

\* An entry of the client's log: a request it sent and the status answered.
LogEntry(req, status) == [req |-> req, status |-> status]

\* Mutant: response.ok is not tested; the body's job_id is used as it is.
submitProofJob_IgnoresNotOk(response) ==
    [pc |-> "poll", jobId |-> response.job_id, out |-> NoResult, err |-> ""]

\* submitProofJob after the response: the job id, or the error thrown.
submitProofJob(response) ==
    IF ~response.ok
    THEN [pc |-> "thrown", jobId |-> UnknownId,
          out |-> NoResult,
          err |-> OrElse(response.error, "Failed to submit proof job")]
    ELSE [pc |-> "poll", jobId |-> response.job_id,
          out |-> NoResult, err |-> ""]

\* Mutant: a failed job is treated as still pending.
PollStep_IgnoresError(jobId, statusResponse) ==
    IF ~statusResponse.ok
    THEN [pc |-> "thrown", jobId |-> jobId, out |-> NoResult,
          err |-> OrElse(statusResponse.error, "Failed to get proof status")]
    ELSE IF statusResponse.status = "done" /\ statusResponse.result # NoResult
    THEN [pc |-> "returned", jobId |-> jobId, out |-> statusResponse.result,
          err |-> ""]
    ELSE [pc |-> "sleep", jobId |-> jobId, out |-> NoResult, err |-> ""]

\* Mutant: a failed job is submitted again.
PollStep_RetriesOnError(jobId, statusResponse) ==
    IF ~statusResponse.ok
    THEN [pc |-> "thrown", jobId |-> jobId, out |-> NoResult,
          err |-> OrElse(statusResponse.error, "Failed to get proof status")]
    ELSE IF statusResponse.status = "done" /\ statusResponse.result # NoResult
    THEN [pc |-> "returned", jobId |-> jobId, out |-> statusResponse.result,
          err |-> ""]
    ELSE IF statusResponse.status = "error"
    THEN [pc |-> "submit", jobId |-> jobId, out |-> NoResult, err |-> ""]
    ELSE [pc |-> "sleep", jobId |-> jobId, out |-> NoResult, err |-> ""]

\* One pass of the loop of generateProofWithPolling on the response of
\* getProofStatus: return the result, throw, or sleep for the poll interval.
PollStep(jobId, statusResponse) ==
    IF ~statusResponse.ok
    THEN [pc |-> "thrown", jobId |-> jobId, out |-> NoResult,
          err |-> OrElse(statusResponse.error, "Failed to get proof status")]
    ELSE IF statusResponse.status = "done" /\ statusResponse.result # NoResult
    THEN [pc |-> "returned", jobId |-> jobId, out |-> statusResponse.result,
          err |-> ""]
    ELSE IF statusResponse.status = "error"
    THEN [pc |-> "thrown", jobId |-> jobId, out |-> NoResult,
          err |-> OrElse(statusResponse.error, "Proof generation failed")]
    ELSE [pc |-> "sleep", jobId |-> jobId, out |-> NoResult, err |-> ""]

Polls(log) == Cardinality({i \in DOMAIN log : log[i].req = "status"})

JobsInit ==
    /\ jobs = [id \in JobIds |-> NoJob]
    /\ issued = {}
    /\ finished = {}
    /\ seen = [id \in JobIds \cup {UnknownId} |-> Unqueried]
    /\ client = [pc |-> "idle", jobId |-> UnknownId, out |-> NoResult,
                 err |-> "", request |-> NoRequest, log |-> << >>]

\* A caller invokes generateProofWithPolling(request).
ClientCall ==
    /\ client.pc \in {"idle", "returned", "thrown"}
    /\ \E request \in Requests :
        client' = [pc |-> "submit", jobId |-> UnknownId, out |-> NoResult,
                   err |-> "", request |-> request, log |-> << >>]
    /\ UNCHANGED <<jobs, issued, finished, seen>>
    /\ UNCHANGED <<regVars, taxVars, farmVars, appVars>>

\* The invocation submits its request.  The job manager answers with a new id
\* (any unused one) or rejects the request.
ClientSubmit ==
    /\ client.pc = "submit"
    /\ \E id \in JobIds :
        /\ jobs[id].status = "absent"
        /\ LET s == Submit(client.request, id)
               c == submitProofJob(s.response) IN
            /\ jobs' = s.jobs
            /\ issued' = IF s.response.ok
                         THEN issued \cup {s.response.job_id}
                         ELSE issued
            /\ client' = [client EXCEPT
                             !.pc = c.pc, !.jobId = c.jobId, !.out = c.out,
                             !.err = c.err,
                             !.log = Append(@, LogEntry("submit",
                                         IF s.response.ok THEN "accepted"
                                         ELSE "rejected"))]
    /\ UNCHANGED <<finished, seen>>
    /\ UNCHANGED <<regVars, taxVars, farmVars, appVars>>

\* The loop sends a status request and acts on the response.
ClientPoll ==
    /\ client.pc = "poll"
    /\ Polls(client.log) < MaxPolls
    /\ LET r == Status(client.jobId)
           c == PollStep(client.jobId, r) IN
        /\ client' = [client EXCEPT !.pc = c.pc, !.out = c.out, !.err = c.err,
                         !.log = Append(@, LogEntry("status", r.status))]
        /\ seen' = [seen EXCEPT ![client.jobId] = r]
    /\ UNCHANGED <<jobs, issued, finished>>
    /\ UNCHANGED <<regVars, taxVars, farmVars, appVars>>

\* The poll interval has passed.
ClientWake ==
    /\ client.pc = "sleep"
    /\ client' = [client EXCEPT !.pc = "poll"]
    /\ UNCHANGED <<jobs, issued, finished, seen>>
    /\ UNCHANGED <<regVars, taxVars, farmVars, appVars>>

\* The background worker's proving run for a pending job ends.
WorkerComplete ==
    /\ \E id \in JobIds, outcome \in {"done", "error"}, m \in ErrorMessages :
        /\ CanComplete(jobs[id])
        /\ outcome = "done" => m = ""
        /\ jobs' = [jobs EXCEPT ![id] = Completed(jobs[id], outcome, m)]
        /\ finished' = finished \cup {id}
    /\ UNCHANGED <<issued, seen, client>>
    /\ UNCHANGED <<regVars, taxVars, farmVars, appVars>>

\* Anyone queries the status of any id.
ObserverStatus ==
    /\ \E id \in JobIds \cup {UnknownId} :
        seen' = [seen EXCEPT ![id] = Status(id)]
    /\ UNCHANGED <<jobs, issued, finished, client>>
    /\ UNCHANGED <<regVars, taxVars, farmVars, appVars>>
(***************************************************************************)
(* The tax computation engine, compute(request) -> TaxBreakdown, and the   *)
(* web client's TaxPanel that calls it.  The engine works in integer paisa *)
(* (1/100 INR); on the wire every amount of money is a decimal string with *)
(* two fractional digits, here a record [units, frac].                     *)
(***************************************************************************)
Categories == {"income", "gains", "losses", "fees", "internal", "unknown"}

\* The categories the engine leaves out of every aggregate.
Excluded == {"fees", "internal", "unknown"}

UserTypes == {"individual", "huf", "corporate"}

\* SessionState.userType before the user has chosen one.
NoUserType == "undefined"

\* The transfers a sync returns, in order, as the classifier labelled them.
Transfers ==
    << [asset |-> "ETH",  amount |-> 8,    category |-> "income"],
       [asset |-> "USDC", amount |-> 5000, category |-> "gains"],
       [asset |-> "ETH",  amount |-> 1,    category |-> "unknown"] >>

\* session.prices: asset -> USD price, a decimal string.
Prices ==
    [a \in {"ETH", "USDC"} |->
        IF a = "ETH" THEN [units |-> 2500, frac |-> 0]
                     ELSE [units |-> 1, frac |-> 0]]

\* session.usdInrRate, "83.00".
UsdInrRate == [units |-> 83, frac |-> 0]

\* The assets classified as virtual digital assets.
VDAAssets == {"ETH", "USDC"}

\* Section 44ADA: the share (percent) of professional income that is taxable.
PresumptiveShare == 50

\* Section 115BBH: the flat rate (percent) on VDA gains.
VdaRate == 30

\* Health and Education Cess (percent).
CessRate == 4

\* Section 115BAC, FY 2025-26: upper limit (paisa) and rate (percent) of each
\* slab, and the rate above the last limit.
SlabSchedule ==
    << [upTo |-> 40000000,  rate |-> 0],
       [upTo |-> 80000000,  rate |-> 5],
       [upTo |-> 120000000, rate |-> 10],
       [upTo |-> 160000000, rate |-> 15],
       [upTo |-> 200000000, rate |-> 20],
       [upTo |-> 240000000, rate |-> 25] >>

TopRate == 30

\* Section 87A: taxable income (paisa) up to which the rebate applies.
RebateThreshold == 120000000

\* Decimal string -> hundredths.
ParseDecimal(d) == d.units * 100 + d.frac

\* Paisa -> INR decimal string with two fractional digits.
FormatDecimal(p) == [units |-> p \div 100, frac |-> p % 100]

\* x * r / 100 rounded half-up, without forming the product x * r.
Scaled(x, r) == (x \div 100) * r + ((x % 100) * r + 50) \div 100

Min(a, b) == IF a < b THEN a ELSE b

\* Step 1: amount * usd_price * usd_inr_rate, in paisa.
RowPaisa(row, request) ==
    Scaled(row.amount * ParseDecimal(request.prices[row.asset]),
           ParseDecimal(request.usd_inr_rate))

RECURSIVE SumRows(_, _, _)
\* The paisa of the first n rows whose category is in cats.
SumRows(request, cats, n) ==
    IF n = 0 THEN 0
    ELSE LET row == request.ledger[n]
         IN  (IF row.category \in cats THEN RowPaisa(row, request) ELSE 0)
             + SumRows(request, cats, n - 1)

ProfessionalIncome_CountsUnknown(request) ==
    SumRows(request, {"income", "unknown"}, Len(request.ledger))

\* Step 2: the rows with category income.
ProfessionalIncome(request) ==
    SumRows(request, {"income"}, Len(request.ledger))

TaxableProfessionalIncome_AnyUserType(request) ==
    IF request.use_44ada
        THEN Scaled(ProfessionalIncome(request), PresumptiveShare)
        ELSE ProfessionalIncome(request)

\* Step 2: half of it for an individual under presumptive taxation.
TaxableProfessionalIncome(request) ==
    IF request.user_type = "individual" /\ request.use_44ada
        THEN Scaled(ProfessionalIncome(request), PresumptiveShare)
        ELSE ProfessionalIncome(request)

RECURSIVE SlabTaxFrom(_, _, _)
\* The tax on the part of income above lower, from slab i on.
SlabTaxFrom(income, i, lower) ==
    IF income <= lower THEN 0
    ELSE IF i > Len(SlabSchedule) THEN Scaled(income - lower, TopRate)
    ELSE Scaled(Min(income, SlabSchedule[i].upTo) - lower, SlabSchedule[i].rate)
         + SlabTaxFrom(income, i + 1, SlabSchedule[i].upTo)

\* Step 3: the slab schedule applied to taxable professional income.
SlabTax(request) == SlabTaxFrom(TaxableProfessionalIncome(request), 1, 0)

\* Step 4: the rebate cancels the slab tax of an individual at or below the
\* threshold.
Rebate(request) ==
    IF /\ request.user_type = "individual"
       /\ TaxableProfessionalIncome(request) <= RebateThreshold
        THEN SlabTax(request) ELSE 0

\* The request's rows on virtual digital assets.
VdaRows(request) ==
    [request EXCEPT !.ledger = SelectSeq(@, LAMBDA row : row.asset \in VDAAssets)]

\* Step 5: losses are a reporting-only figure.
VdaLosses(request) ==
    SumRows(VdaRows(request), {"losses"}, Len(VdaRows(request).ledger))

VdaGains_SetOff(request) ==
    LET gains == SumRows(VdaRows(request), {"gains"}, Len(VdaRows(request).ledger))
    IN  IF gains > VdaLosses(request) THEN gains - VdaLosses(request) ELSE 0

\* Step 5: the rows with category gains; nothing is subtracted.
VdaGains(request) ==
    SumRows(VdaRows(request), {"gains"}, Len(VdaRows(request).ledger))

VdaTax(request) == Scaled(VdaGains(request), VdaRate)

\* Step 6.
Cess(request) ==
    Scaled(SlabTax(request) - Rebate(request) + VdaTax(request), CessRate)

TotalTax_IgnoresRebate(request) ==
    SlabTax(request) + VdaTax(request) + Cess(request)

\* Step 7.
TotalTax(request) ==
    SlabTax(request) - Rebate(request) + VdaTax(request) + Cess(request)

\* compute(request): every figure formatted as an INR decimal string.
compute(request) ==
    [professional_income_inr |-> FormatDecimal(ProfessionalIncome(request)),
     taxable_professional_income_inr |->
         FormatDecimal(TaxableProfessionalIncome(request)),
     vda_gains_inr |-> FormatDecimal(VdaGains(request)),
     vda_losses_inr |-> FormatDecimal(VdaLosses(request)),
     professional_tax_inr |-> FormatDecimal(SlabTax(request)),
     section_87a_rebate_inr |-> FormatDecimal(Rebate(request)),
     vda_tax_inr |-> FormatDecimal(VdaTax(request)),
     cess_inr |-> FormatDecimal(Cess(request)),
     total_tax_inr |-> FormatDecimal(TotalTax(request))]

\* TaxPanel's breakdown state before a calculation: null.
NoBreakdown == [total_tax_inr |-> "null"]

\* No calculation has returned yet.
NoTaxRequest == [user_type |-> "none"]

NoError == "null"

\* session.ledger after a sync that returned the first n transfers.
Ledger(n) ==
    [i \in 1..n |->
        [id |-> i, asset |-> Transfers[i].asset, amount |-> Transfers[i].amount,
         category |-> Transfers[i].category]]

\* session.categoryOverrides: at most one override per row of the ledger.
OverrideSets(n) ==
    {o \in SUBSET [ledgerRowId : 1..n, category : Categories] :
        \A a, b \in o : a.ledgerRowId = b.ledgerRowId => a = b}

CURRENT_SESSION_VERSION == 1

\* session.proofArtifacts while no proof is stored: undefined.  Stored
\* artifacts are those the server generated for a request.
NoProofArtifacts == [request |-> [user_type |-> "none"]]

\* The sessions a TaxPanel can be rendered or called with.
Sessions ==
    UNION {[userType : UserTypes \cup {NoUserType},
            use44ada : BOOLEAN,
            ledger : {Ledger(n)},
            categoryOverrides : OverrideSets(n),
            version : {CURRENT_SESSION_VERSION},
            wallets : {<< >>},
            walletGroups : {<< >>},
            proofArtifacts : {NoProofArtifacts}] : n \in 0..MaxRows}

\* createEmptySession().
EmptySession ==
    [userType |-> NoUserType, use44ada |-> FALSE, ledger |-> << >>,
     categoryOverrides |-> {}, version |-> CURRENT_SESSION_VERSION,
     wallets |-> << >>, walletGroups |-> << >>,
     proofArtifacts |-> NoProofArtifacts]

\* The override of a row, if there is one, else the row's own category.
SubmittedCategory(s, row) ==
    IF \E o \in s.categoryOverrides : o.ledgerRowId = row.id
        THEN (CHOOSE o \in s.categoryOverrides : o.ledgerRowId = row.id).category
        ELSE row.category

\* The ledger in API format.
ApiLedger(s) ==
    [i \in 1..Len(s.ledger) |->
        [asset |-> s.ledger[i].asset,
         amount |-> s.ledger[i].amount,
         category |-> SubmittedCategory(s, s.ledger[i]),
         user_override |->
             \E o \in s.categoryOverrides : o.ledgerRowId = s.ledger[i].id]]

\* The TaxRequest handleCalculate and buildApiRequest send.
TaxRequest(s) ==
    [user_type |-> s.userType,
     ledger |-> ApiLedger(s),
     prices |-> Prices,
     usd_inr_rate |-> UsdInrRate,
     use_44ada |-> s.use44ada]

TaxIdle ==
    /\ session = EmptySession
    /\ breakdown = NoBreakdown
    /\ panelError = NoError
    /\ calculated = NoTaxRequest

TaxInit ==
    /\ session \in Sessions
    /\ breakdown = NoBreakdown
    /\ panelError = NoError
    /\ calculated = NoTaxRequest

\* TaxPanel.handleCalculate; the call of calculateTax succeeds or throws.
HandleCalculate ==
    /\ IF session.userType = NoUserType
          THEN /\ panelError' = "Please select a user type first"
               /\ UNCHANGED <<breakdown, calculated>>
       ELSE IF Len(session.ledger) = 0
          THEN /\ panelError' = "No transactions to calculate tax on"
               /\ UNCHANGED <<breakdown, calculated>>
       ELSE \E ok \in BOOLEAN :
               IF ok
                  THEN /\ breakdown' = compute(TaxRequest(session))
                       /\ calculated' = TaxRequest(session)
                       /\ panelError' = NoError
                  ELSE /\ panelError' = "Failed to calculate tax"
                       /\ UNCHANGED <<breakdown, calculated>>
    /\ UNCHANGED session
    /\ UNCHANGED <<regVars, jobVars, farmVars, appVars>>

\* The Section 44ADA toggle of SetupComplete, rendered for an individual
\* with a ledger.
Toggle44ada ==
    /\ Len(session.ledger) > 0
    /\ session.userType = "individual"
    /\ session' = [session EXCEPT !.use44ada = ~session.use44ada]
    /\ localStorage' = session'
    /\ UNCHANGED <<breakdown, panelError, calculated, nextId, storeOp>>
    /\ UNCHANGED <<regVars, jobVars, farmVars, pageVars>>

(***************************************************************************)
(* The session store (SessionProvider in lib/api.ts) and the handlers of   *)
(* the pages that write it.  A handler reads the session of the render it  *)
(* was created in and writes through setSession; the effect that follows   *)
(* every change saves the session to localStorage, so an action sets       *)
(* localStorage to the session it leaves.  taxSummary, createdAt and       *)
(* updatedAt are read by nothing here and are left out.                    *)
(***************************************************************************)
\* The receipt before any operation of the store.
NoStoreOp == [op |-> "none"]

\* saveSession after a change of the session.
saveSession(s) == s

StoreIdle ==
    /\ localStorage = saveSession(session)
    /\ nextId = 1
    /\ storeOp = NoStoreOp

\* TaxPanel.handleGenerateProof with a breakdown on the panel; the call of
\* generateProof succeeds with the artifacts of the request, or throws.
HandleGenerateProof ==
    /\ IF breakdown = NoBreakdown
          THEN /\ panelError' = "Please calculate tax first"
               /\ UNCHANGED <<session, localStorage, storeOp>>
          ELSE \E ok \in BOOLEAN :
                  IF ok
                     THEN /\ session' =
                                 [session EXCEPT !.proofArtifacts =
                                     [request |-> TaxRequest(session)]]
                          /\ localStorage' = saveSession(session')
                          /\ storeOp' = [op |-> "setProofArtifacts"]
                          /\ panelError' = NoError
                     ELSE /\ panelError' = "Failed to generate proof"
                          /\ UNCHANGED <<session, localStorage, storeOp>>
    /\ UNCHANGED <<breakdown, calculated, nextId>>
    /\ UNCHANGED <<regVars, jobVars, farmVars, pageVars>>

\* SetupComplete.handleSync: fetchTransfers returns the first n transfers and
\* setLedger stores them, or it throws.
HandleSync ==
    /\ \E ok \in BOOLEAN, n \in 0..MaxRows :
          IF ok
             THEN /\ session' = [session EXCEPT !.ledger = Ledger(n)]
                  /\ localStorage' = saveSession(session')
                  /\ storeOp' = [op |-> "setLedger"]
             ELSE UNCHANGED <<session, localStorage, storeOp>>
    /\ UNCHANGED <<breakdown, panelError, calculated, nextId>>
    /\ UNCHANGED <<regVars, jobVars, farmVars, pageVars>>

\* String.toLowerCase on the address strings of the model.
ToLowerCase(a) == IF a = "0xAA" THEN "0xaa" ELSE a

\* isValidAddress: 0x and forty hex digits; "0xaa", "0xAA" and "0xbb" stand
\* for such strings, "" and "nonsense" do not match.
isValidAddress(a) == a \in {"0xaa", "0xAA", "0xbb"}

\* What the user types into the address field.
NewAddresses == {"", "nonsense", "0xaa", "0xAA", "0xbb"}

\* wallet.label and wallet.groupId while undefined.
NoLabel == "undefined"

NoGroup == 0

\* An address resolveEnsSubdomains could not resolve: null.
NullAddress == "null"

\* The answers of resolveEnsSubdomains: one or two subdomains.
EnsResponses ==
    {<< [name |-> "a.club.eth", address |-> a] >> :
        a \in {"0xaa", NullAddress}}
    \cup
    {<< [name |-> "a.club.eth", address |-> a],
        [name |-> "b.club.eth", address |-> b] >> :
        a, b \in {"0xaa", "0xAA", NullAddress}}

\* response.subdomains.filter((s) => s.address !== null).
WithAddresses(subdomains) ==
    SelectSeq(subdomains, LAMBDA sd : sd.address # NullAddress)

\* session.wallets.some((w) => w.address.toLowerCase() === address).
HasAddress(wallets, address) ==
    \E i \in DOMAIN wallets : ToLowerCase(wallets[i].address) = address

addWallet(s, id, address, label, groupId) ==
    [s EXCEPT !.wallets =
        Append(@, [id |-> id, address |-> ToLowerCase(address),
                   label |-> label, groupId |-> groupId])]

removeWallet(s, id) ==
    [s EXCEPT !.wallets = SelectSeq(@, LAMBDA w : w.id # id)]

\* updateWallet(id, { groupId }).
updateWallet(s, id, groupId) ==
    [s EXCEPT !.wallets =
        [i \in DOMAIN s.wallets |->
            IF s.wallets[i].id = id
                THEN [s.wallets[i] EXCEPT !.groupId = groupId]
                ELSE s.wallets[i]]]

addWalletGroup(s, id, name) ==
    [s EXCEPT !.walletGroups = Append(@, [id |-> id, name |-> name])]

removeWalletGroup_DropsWallets(s, id) ==
    [s EXCEPT !.walletGroups = SelectSeq(@, LAMBDA g : g.id # id),
              !.wallets = SelectSeq(@, LAMBDA w : w.groupId # id)]

removeWalletGroup(s, id) ==
    [s EXCEPT !.walletGroups = SelectSeq(@, LAMBDA g : g.id # id),
              !.wallets =
                  [i \in DOMAIN s.wallets |->
                      IF s.wallets[i].groupId = id
                          THEN [s.wallets[i] EXCEPT !.groupId = NoGroup]
                          ELSE s.wallets[i]]]

\* The subdomains a loop over ensResults (or over the club's members) adds:
\* each is compared with the wallets of the session the handler was created
\* with, not with the wallets added earlier in the same loop.
Missing(stale, subdomains) ==
    SelectSeq(subdomains,
              LAMBDA sd : ~HasAddress(stale, ToLowerCase(sd.address)))

\* The session after addWallet(address, name) for each subdomain in turn,
\* the ids coming from generateId.
RECURSIVE AddEach(_, _, _)
AddEach(s, id, subdomains) ==
    IF subdomains = << >> THEN s
    ELSE AddEach(addWallet(s, id, Head(subdomains).address,
                           Head(subdomains).name, NoGroup),
                 id + 1, Tail(subdomains))

\* A change of the session by a handler, with the save that follows it.
Store(s, op, ids) ==
    /\ session' = s
    /\ localStorage' = saveSession(s)
    /\ nextId' = nextId + ids
    /\ storeOp' = op
    /\ UNCHANGED <<breakdown, panelError, calculated>>
    /\ UNCHANGED <<regVars, jobVars, farmVars, pageVars>>

\* WalletsStep.handleAddWallet; a refused input changes only the step's
\* error message.
HandleAddWallet ==
    \E newAddress \in NewAddresses :
        LET address == ToLowerCase(newAddress)
            label == NoLabel
        IN  /\ newAddress # ""
            /\ isValidAddress(address)
            /\ ~HasAddress(session.wallets, address)
            /\ nextId <= MaxIds
            /\ Store(addWallet(session, nextId, address, label, NoGroup),
                     [op |-> "addWallet"], 1)

\* WalletsStep.handleAddSelectedEns on the results of handleResolveEns and
\* the addresses still selected.
HandleAddSelectedEns ==
    \E response \in EnsResponses :
        LET ensResults == WithAddresses(response)
        IN  \E selectedEns \in
                    SUBSET {ensResults[i].address : i \in DOMAIN ensResults} :
                LET chosen == SelectSeq(ensResults,
                                  LAMBDA sd : sd.address \in selectedEns)
                    added == Missing(session.wallets, chosen)
                IN  /\ selectedEns # {}
                    /\ nextId + Len(added) <= MaxIds + 1
                    /\ Store(AddEach(session, nextId, added),
                             [op |-> "addSelectedEns"], Len(added))

\* The club page's handleImportAll on the members fetchMembers loaded.
HandleImportAll ==
    \E members \in EnsResponses :
        LET added == Missing(session.wallets, WithAddresses(members))
        IN  /\ nextId + Len(added) <= MaxIds + 1
            /\ Store(AddEach(session, nextId, added),
                     [op |-> "importAll"], Len(added))

\* The remove button of a wallet in WalletsStep.
RemoveWallet ==
    \E i \in DOMAIN session.wallets :
        Store(removeWallet(session, session.wallets[i].id),
              [op |-> "removeWallet"], 0)

GroupNames == {"family", "business"}

\* GroupsStep.handleAddGroup.
HandleAddGroup ==
    \E newGroupName \in GroupNames :
        /\ \A i \in DOMAIN session.walletGroups :
               session.walletGroups[i].name # newGroupName
        /\ nextId <= MaxIds
        /\ Store(addWalletGroup(session, nextId, newGroupName),
                 [op |-> "addWalletGroup"], 1)

\* GroupsStep.handleAssignGroup: a wallet is put into a group or out of its
\* group.
HandleAssignGroup ==
    \E i \in DOMAIN session.wallets :
        \E groupId \in {session.walletGroups[j].id :
                           j \in DOMAIN session.walletGroups} \cup {NoGroup} :
            /\ session.wallets[i].groupId # groupId
            /\ Store(updateWallet(session, session.wallets[i].id, groupId),
                     [op |-> "updateWallet"], 0)

\* The remove button of a group in GroupsStep.
RemoveWalletGroup ==
    \E j \in DOMAIN session.walletGroups :
        LET id == session.walletGroups[j].id
        IN  Store(removeWalletGroup(session, id),
                  [op |-> "removeWalletGroup", id |-> id, before |-> session],
                  0)

\* The loss of a stored session: loadSession's null.
Null == [null |-> TRUE]

\* A wallet id of an imported file, one generateId did not return here.
ImportedId == 0

\* The sessions of the files a user imports: exports of this version of the
\* app and of a later one.
ImportedSessions ==
    {[EmptySession EXCEPT !.version = v, !.userType = u, !.wallets = w] :
        v \in {CURRENT_SESSION_VERSION, CURRENT_SESSION_VERSION + 1},
        u \in {NoUserType, "huf"},
        w \in {<< >>,
               << [id |-> ImportedId, address |-> "0xbb", label |-> NoLabel,
                   groupId |-> NoGroup] >>}}

\* The files given to importSession: text that is not JSON, JSON whose
\* version is not a number, JSON whose wallets are no array, and sessions.
ImportFiles ==
    {[kind |-> k, parsed |-> EmptySession] :
        k \in {"not json", "no version", "no wallets"}}
    \cup {[kind |-> "session", parsed |-> s] : s \in ImportedSessions}

\* importSession(json): whether it returned true, and the session it set.
\* JSON.stringify and JSON.parse keep every field of a session but the
\* undefined ones, which read as undefined again.
importSession(s, json) ==
    IF json.kind = "not json" THEN [returned |-> FALSE, session |-> s]
    ELSE IF json.kind = "no version" THEN [returned |-> FALSE, session |-> s]
    ELSE IF json.kind = "no wallets" THEN [returned |-> FALSE, session |-> s]
    ELSE [returned |-> TRUE, session |-> json.parsed]

\* loadSession() in the browser, on what saveSession stored.
loadSession(stored) ==
    IF stored.version # CURRENT_SESSION_VERSION THEN Null ELSE stored

\* Wizard.getInitialStep.
getInitialStep(s) ==
    IF s.userType = NoUserType THEN 1
    ELSE IF Len(s.wallets) = 0 THEN 2
    ELSE 3

\* steps.length.
StepCount == 3

\* No call of onComplete yet.
NotCompleted == [called |-> FALSE, userType |-> NoUserType, wallets |-> 0]

\* AppPage after its mount with session s: the effect marks the setup
\* complete when s has a user type and a wallet, else the wizard is shown.
Mounted(s) ==
    /\ wizardComplete = (s.userType # NoUserType /\ Len(s.wallets) > 0)
    /\ currentStep = getInitialStep(s)
    /\ completed = NotCompleted

\* SetupComplete is shown, with the TaxPanel if there is a ledger.
SetupShown ==
    /\ wizardComplete = TRUE
    /\ currentStep = getInitialStep(session)
    /\ completed = NotCompleted

\* The wizard is shown at step n.
AtStep(n) == ~wizardComplete /\ currentStep = n

\* onComplete: AppPage's setWizardComplete(true).
OnComplete ==
    /\ wizardComplete' = TRUE
    /\ completed' = [called |-> TRUE, userType |-> session.userType,
                     wallets |-> Len(session.wallets)]
    /\ UNCHANGED currentStep

\* Wizard.goToNext.
GoToNext ==
    IF currentStep < StepCount
        THEN /\ currentStep' = currentStep + 1
             /\ UNCHANGED <<wizardComplete, completed>>
        ELSE OnComplete

\* Wizard.goToPrevious.
GoToPrevious ==
    /\ currentStep' = IF currentStep > 1 THEN currentStep - 1 ELSE currentStep
    /\ UNCHANGED <<wizardComplete, completed>>

\* A step of the wizard that leaves the session alone.
WizardOnly ==
    /\ UNCHANGED <<regVars, jobVars, taxVars, farmVars, storeVars, verifyVars,
                    clubVars>>

\* UserTypeStep.handleSelect.
HandleSelect ==
    /\ AtStep(1)
    /\ \E type \in UserTypes :
          Store([session EXCEPT !.userType = type], [op |-> "setUserType"], 0)

\* UserTypeStep.handleContinue.
UserTypeContinue ==
    /\ AtStep(1)
    /\ session.userType # NoUserType
    /\ GoToNext
    /\ WizardOnly

\* WalletsStep.handleContinue.
WalletsContinue ==
    /\ AtStep(2)
    /\ Len(session.wallets) > 0
    /\ GoToNext
    /\ WizardOnly

\* The back button of WalletsStep or GroupsStep.
StepBack ==
    /\ AtStep(2) \/ AtStep(3)
    /\ GoToPrevious
    /\ WizardOnly

\* The continue button of GroupsStep: onNext is onComplete.
GroupsContinue ==
    /\ AtStep(3)
    /\ OnComplete
    /\ WizardOnly

\* SessionManager.hasData.
hasData ==
    \/ Len(session.wallets) > 0
    \/ Len(session.ledger) > 0
    \/ session.userType # NoUserType

\* SessionManager.handleReset, behind a button enabled by hasData.
HandleReset ==
    /\ hasData
    /\ Store(EmptySession, [op |-> "resetSession"], 0)

\* SessionManager.handleFileChange, once the file is read.
HandleFileChange ==
    \E json \in ImportFiles :
        LET r == importSession(session, json)
        IN  Store(r.session,
                  [op |-> "importSession", returned |-> r.returned], 0)

\* The page is loaded again: SessionProvider starts from loadSession() or
\* an empty session and saves it, and every component starts afresh.
PageLoad ==
    LET loaded == loadSession(localStorage)
        s == IF loaded = Null THEN EmptySession ELSE loaded
    IN  /\ session' = s
        /\ localStorage' = saveSession(s)
        /\ storeOp' = [op |-> "loadSession"]
        /\ wizardComplete' = (s.userType # NoUserType /\ Len(s.wallets) > 0)
        /\ currentStep' = getInitialStep(s)
        /\ completed' = NotCompleted
        /\ breakdown' = NoBreakdown
        /\ panelError' = NoError
        /\ calculated' = NoTaxRequest
        /\ UNCHANGED nextId
        /\ UNCHANGED <<regVars, jobVars, farmVars, verifyVars, clubVars>>

(***************************************************************************)
(* DemoToken and YieldFarm.  A uint256 is a natural below 2^WordBits; the  *)
(* compiler's checked arithmetic (solidity ^0.8.20) reverts the call when  *)
(* a sum or a product leaves that range or a difference is negative.  A    *)
(* call runs on a world w, a record of both contracts' storage with a flag *)
(* ok that a revert clears; a reverted call leaves the storage as it was.  *)
(***************************************************************************)
\* YieldFarm.REWARD_RATE: percent per block.
REWARD_RATE == 10

\* The width of a storage word, scaled down from 256.
WordBits == 10

MaxUint == 2 ^ WordBits - 1

\* The accounts that stake.
Stakers == Callers

\* address(YieldFarm).
FarmAddress == 3

\* address(ProfitMachine).
ProfitAddress == 4

\* The contracts that pull tokens with transferFrom.
Contracts == {FarmAddress, ProfitAddress}

Accounts == Stakers \cup Contracts

\* The amounts the callers pass to stake, mint and transfer.
StakeAmounts == {10, 200}
MintAmounts == {200}
TransferAmounts == {10}

\* What each staker holds when the behaviour starts.
StartBalance == 20

\* The zero value of struct Stake.
ZeroStake == [amount |-> 0, startBlock |-> 0, claimedRewards |-> 0]

\* The storage of both contracts as the current call sees it.
World ==
    [ok |-> TRUE, totalSupply |-> totalSupply, balanceOf |-> balanceOf,
     allowance |-> allowance, stakes |-> stakes, rewarded |-> rewarded]

\* revert.
Fail(w) == [w EXCEPT !.ok = FALSE]

\* DemoToken._mint.
Mint(w, to, amount) ==
    IF ~w.ok THEN w
    ELSE IF w.totalSupply + amount > MaxUint THEN Fail(w)
    ELSE IF w.balanceOf[to] + amount > MaxUint THEN Fail(w)
    ELSE [w EXCEPT !.totalSupply = @ + amount, !.balanceOf[to] = @ + amount]

\* DemoToken._transfer.
Transfer(w, from, to, amount) ==
    IF ~w.ok THEN w
    ELSE IF w.balanceOf[from] < amount THEN Fail(w)
    ELSE LET debited == [w EXCEPT !.balanceOf[from] = @ - amount]
         IN  IF debited.balanceOf[to] + amount > MaxUint THEN Fail(w)
             ELSE [debited EXCEPT !.balanceOf[to] = @ + amount]

\* DemoToken.transferFrom called by the contract to (msg.sender = to).
transferFrom(w, from, to, amount) ==
    IF ~w.ok THEN w
    ELSE LET allowed == w.allowance[from][to]
         IN  IF allowed # MaxUint
                THEN IF allowed < amount THEN Fail(w)
                     ELSE Transfer([w EXCEPT !.allowance[from][to] = allowed - amount],
                                   from, to, amount)
                ELSE Transfer(w, from, to, amount)

\* YieldFarm.pendingRewards at block bn: [ok, value].
pendingRewards(w, user, bn) ==
    LET s == w.stakes[user]
    IN  IF s.amount = 0 THEN [ok |-> TRUE, value |-> 0]
        ELSE IF bn < s.startBlock THEN [ok |-> FALSE, value |-> 0]
        ELSE IF s.amount * REWARD_RATE > MaxUint THEN [ok |-> FALSE, value |-> 0]
        ELSE IF s.amount * REWARD_RATE * (bn - s.startBlock) > MaxUint
            THEN [ok |-> FALSE, value |-> 0]
        ELSE LET totalRewards ==
                     (s.amount * REWARD_RATE * (bn - s.startBlock)) \div 100
             IN  IF totalRewards < s.claimedRewards
                    THEN [ok |-> FALSE, value |-> 0]
                    ELSE [ok |-> TRUE, value |-> totalRewards - s.claimedRewards]

\* YieldFarm._claimRewards.
ClaimRewardsOf(w, user, bn) ==
    IF ~w.ok THEN w
    ELSE LET rewards == pendingRewards(w, user, bn)
         IN  IF ~rewards.ok THEN Fail(w)
             ELSE IF rewards.value > 0
                THEN IF w.stakes[user].claimedRewards + rewards.value > MaxUint
                        THEN Fail(w)
                        ELSE Mint([w EXCEPT
                                      !.stakes[user].claimedRewards =
                                          @ + rewards.value,
                                      !.rewarded[user] = @ + rewards.value],
                                  user, rewards.value)
                ELSE w

\* YieldFarm.stake.
stake(w, sender, amount, bn) ==
    IF amount = 0 THEN Fail(w)
    ELSE LET paid == transferFrom(ClaimRewardsOf(w, sender, bn),
                                  sender, FarmAddress, amount)
         IN  IF ~paid.ok THEN Fail(w)
             ELSE IF paid.stakes[sender].amount + amount > MaxUint THEN Fail(w)
             ELSE [paid EXCEPT
                      !.stakes[sender].amount = @ + amount,
                      !.stakes[sender].startBlock = IF @ = 0 THEN bn ELSE @]

\* YieldFarm.unstake.
unstake(w, sender, bn) ==
    IF w.stakes[sender].amount = 0 THEN Fail(w)
    ELSE LET claimed == ClaimRewardsOf(w, sender, bn)
         IN  IF ~claimed.ok THEN Fail(w)
             ELSE Transfer([claimed EXCEPT !.stakes[sender] = ZeroStake],
                           FarmAddress, sender, claimed.stakes[sender].amount)

\* YieldFarm.claimRewards.
claimRewards(w, sender, bn) == ClaimRewardsOf(w, sender, bn)

\* DemoToken.mint.
mint(w, to, amount) == Mint(w, to, amount)

deposit_TenPercentBonus(w, sender, amount) ==
    IF amount = 0 THEN Fail(w)
    ELSE LET taken == transferFrom(w, sender, ProfitAddress, amount)
         IN  IF ~taken.ok THEN Fail(w)
             ELSE Mint(taken, sender, amount + amount \div 10)

\* ProfitMachine.deposit.
deposit(w, sender, amount) ==
    IF amount = 0 THEN Fail(w)
    ELSE LET taken == transferFrom(w, sender, ProfitAddress, amount)
         IN  IF ~taken.ok THEN Fail(w)
             ELSE IF amount * 2 > MaxUint THEN Fail(w)
             ELSE Mint(taken, sender, amount * 2)

\* DemoToken.transfer.
transfer(w, sender, to, amount) == Transfer(w, sender, to, amount)

NoCall ==
    [n |-> 0, op |-> "none", sender |-> 0, amount |-> 0, ok |-> TRUE,
     staked |-> 0, farmBalance |-> 0, balance |-> 0, supply |-> 0]

\* The storage before either contract has been deployed or called.
FarmIdle ==
    /\ blockNumber = 0
    /\ totalSupply = 0
    /\ balanceOf = [a \in Accounts |-> 0]
    /\ allowance = [a \in Stakers |-> [c \in Contracts |-> 0]]
    /\ stakes = [a \in Stakers |-> ZeroStake]
    /\ rewarded = [a \in Stakers |-> 0]
    /\ accrued = [a \in Stakers |-> 0]
    /\ call = NoCall

\* Both contracts deployed; every staker has minted StartBalance and has
\* approved the farm for type(uint256).max.
FarmInit ==
    /\ blockNumber = 1
    /\ totalSupply = StartBalance * Cardinality(Stakers)
    /\ balanceOf = [a \in Accounts |-> IF a \in Stakers THEN StartBalance ELSE 0]
    /\ allowance = [a \in Stakers |-> [c \in Contracts |-> MaxUint]]
    /\ stakes = [a \in Stakers |-> ZeroStake]
    /\ rewarded = [a \in Stakers |-> 0]
    /\ accrued = [a \in Stakers |-> 0]
    /\ call = NoCall

\* The transaction op sent by sender ends in world w: its writes are kept
\* if it completed and dropped if it reverted.
Mined(op, sender, amount, w) ==
    /\ call.n < MaxCalls
    /\ call' = [n |-> call.n + 1, op |-> op, sender |-> sender,
                amount |-> amount, ok |-> w.ok,
                staked |-> stakes[sender].amount,
                farmBalance |-> balanceOf[FarmAddress],
                balance |-> balanceOf[sender], supply |-> totalSupply]
    /\ IF w.ok
          THEN /\ totalSupply' = w.totalSupply
               /\ balanceOf' = w.balanceOf
               /\ allowance' = w.allowance
               /\ stakes' = w.stakes
               /\ rewarded' = w.rewarded
          ELSE UNCHANGED <<totalSupply, balanceOf, allowance, stakes, rewarded>>
    /\ UNCHANGED <<blockNumber, accrued>>
    /\ UNCHANGED <<regVars, jobVars, taxVars, appVars>>

TxStake ==
    \E sender \in Stakers, amount \in StakeAmounts :
        Mined("stake", sender, amount, stake(World, sender, amount, blockNumber))

TxUnstake ==
    \E sender \in Stakers :
        Mined("unstake", sender, 0, unstake(World, sender, blockNumber))

TxClaimRewards ==
    \E sender \in Stakers :
        Mined("claimRewards", sender, 0, claimRewards(World, sender, blockNumber))

TxMint ==
    \E sender \in Stakers, to \in Stakers, amount \in MintAmounts :
        Mined("mint", sender, amount, mint(World, to, amount))

\* The amounts the callers pass to ProfitMachine.deposit.
DepositAmounts == {0, 10, 30}

TxDeposit ==
    \E sender \in Stakers, amount \in DepositAmounts :
        Mined("deposit", sender, amount, deposit(World, sender, amount))

\* DemoToken.approve(ProfitMachine, amount).
TxApprove ==
    \E sender \in Stakers, amount \in {0, MaxUint} :
        Mined("approve", sender, amount,
              [World EXCEPT !.allowance[sender][ProfitAddress] = amount])

TxTransfer ==
    \E sender \in Stakers, amount \in TransferAmounts :
        \E to \in Accounts \ {sender} :
            Mined("transfer", sender, amount, transfer(World, sender, to, amount))

\* The chain moves to the next block; every stake has been in the farm for
\* one more block.
MineBlock ==
    /\ blockNumber < MaxBlock
    /\ blockNumber' = blockNumber + 1
    /\ accrued' = [a \in Stakers |-> accrued[a] + stakes[a].amount * REWARD_RATE]
    /\ UNCHANGED <<totalSupply, balanceOf, allowance, stakes, rewarded, call>>
    /\ UNCHANGED <<regVars, jobVars, taxVars, appVars>>

(***************************************************************************)
(* The verify page (app/verify/page.tsx): it sends verifyTaxProof through  *)
(* the wallet and shows a status computed from the state of the write      *)
(* (useWriteContract) and of the receipt query                             *)
(* (useWaitForTransactionReceipt).  A transaction hash is the number of    *)
(* the transaction among those the page has broadcast.                     *)
(***************************************************************************)
\* txHash while nothing has been broadcast: undefined.
NoHash == 0

Hashes == 1..MaxTx

\* What handleVerify finds as proof and public values: nothing, base64 that
\* atob rejects, or bytes.
VerifyInputs ==
    {[kind |-> "missing", proofBytes |-> Proof(0, EmptyBytes),
      publicValues |-> EmptyBytes],
     [kind |-> "garbled", proofBytes |-> Proof(0, EmptyBytes),
      publicValues |-> EmptyBytes]}
    \cup
    {[kind |-> "bytes", proofBytes |-> proof, publicValues |-> q] :
        proof \in {Proof(TAX_ZK_VKEY, AbiEncode(1, 5, 1, FALSE)),
                   Proof(0, AbiEncode(1, 5, 1, FALSE))},
        q \in {AbiEncode(1, 5, 1, FALSE), << 1, 5 >>}}

\* A transaction the page has not broadcast.
NoSentTx ==
    [status |-> "none", caller |-> 0, proofBytes |-> Proof(0, EmptyBytes),
     publicValues |-> EmptyBytes]

\* useWriteContract before the first call.
WriteIdle == [status |-> "idle", data |-> NoHash, variables |-> NoSentTx]

writeError == write.status = "error"

isPending == write.status = "pending"

txHash == write.data

\* useWaitForTransactionReceipt: loading until the transaction is mined.
isConfirming == txHash # NoHash /\ sentTxs[txHash].status = "pending"

\* useWaitForTransactionReceipt: the query succeeds with the receipt of a
\* transaction that did not revert, and fails for a reverted one.
isConfirmed == txHash # NoHash /\ sentTxs[txHash].status = "success"

Verification_HashMeansSuccess ==
    IF dismissedStatus THEN [status |-> "idle", txHash |-> NoHash]
    ELSE IF manualError # "null" THEN [status |-> "error", txHash |-> NoHash]
    ELSE IF writeError THEN [status |-> "error", txHash |-> NoHash]
    ELSE IF isPending THEN [status |-> "verifying", txHash |-> NoHash]
    ELSE IF txHash # NoHash /\ isConfirming
        THEN [status |-> "confirming", txHash |-> txHash]
    ELSE IF txHash # NoHash THEN [status |-> "success", txHash |-> txHash]
    ELSE [status |-> "idle", txHash |-> NoHash]

\* The status the page shows.
Verification ==
    IF dismissedStatus THEN [status |-> "idle", txHash |-> NoHash]
    ELSE IF manualError # "null" THEN [status |-> "error", txHash |-> NoHash]
    ELSE IF writeError THEN [status |-> "error", txHash |-> NoHash]
    ELSE IF isPending THEN [status |-> "verifying", txHash |-> NoHash]
    ELSE IF txHash # NoHash /\ isConfirming
        THEN [status |-> "confirming", txHash |-> txHash]
    ELSE IF txHash # NoHash /\ isConfirmed
        THEN [status |-> "success", txHash |-> txHash]
    ELSE [status |-> "idle", txHash |-> NoHash]

VerifyIdle ==
    /\ isConnected = FALSE
    /\ dismissedStatus = FALSE
    /\ manualError = "null"
    /\ write = WriteIdle
    /\ sentTxs = [h \in Hashes |-> NoSentTx]

\* handleVerify, called from a button the page renders while the status is
\* idle.
HandleVerify ==
    /\ Verification.status = "idle"
    /\ dismissedStatus' = FALSE
    /\ IF ~isConnected
          THEN /\ manualError' = "Please connect your wallet first"
               /\ UNCHANGED write
          ELSE \E input \in VerifyInputs :
                  CASE input.kind = "missing" ->
                          /\ manualError' =
                                 "Please provide both proof and public values"
                          /\ UNCHANGED write
                    [] input.kind = "garbled" ->
                          /\ manualError' = "Failed to prepare transaction"
                          /\ UNCHANGED write
                    [] OTHER ->
                          /\ manualError' = "null"
                          /\ write' =
                                 [status |-> "pending", data |-> NoHash,
                                  variables |->
                                      [status |-> "pending", caller |-> 1,
                                       proofBytes |-> input.proofBytes,
                                       publicValues |-> input.publicValues]]
    /\ UNCHANGED <<isConnected, sentTxs>>
    /\ UNCHANGED <<regVars, jobVars, taxVars, farmVars, storeVars, wizardVars, clubVars>>

\* The wallet answers writeContract: the user rejects (or the simulation
\* fails), or the transaction is broadcast and its hash returned.
WalletAnswers ==
    /\ isPending
    /\ \/ /\ write' = [write EXCEPT !.status = "error"]
          /\ UNCHANGED sentTxs
       \/ \E h \in Hashes :
             /\ sentTxs[h].status = "none"
             /\ \A g \in Hashes : g < h => sentTxs[g].status # "none"
             /\ sentTxs' = [sentTxs EXCEPT ![h] = write.variables]
             /\ write' = [write EXCEPT !.status = "success", !.data = h]
    /\ UNCHANGED <<isConnected, dismissedStatus, manualError>>
    /\ UNCHANGED <<regVars, jobVars, taxVars, farmVars, storeVars, wizardVars, clubVars>>

\* A broadcast transaction is mined: the registry runs verifyTaxProof.
MineVerify ==
    \E h \in Hashes :
        /\ sentTxs[h].status = "pending"
        /\ LET t == sentTxs[h]
               r == verifyTaxProof(t.caller, now, t.proofBytes, t.publicValues)
           IN  /\ taxRecords' = r.taxRecords
               /\ succeeded' =
                      IF r.status = "success"
                          THEN succeeded \cup
                                   {AbiDecode(t.publicValues).ledgerCommitment}
                          ELSE succeeded
               /\ tx' = [n |-> tx.n + 1, caller |-> t.caller, time |-> now,
                         proofBytes |-> t.proofBytes,
                         publicValues |-> t.publicValues,
                         pre |-> taxRecords, status |-> r.status,
                         logs |-> r.logs, calls |-> r.calls,
                         accepted |->
                             VerifyProof(taxZkVkey, t.publicValues, t.proofBytes)]
               /\ sentTxs' = [sentTxs EXCEPT ![h].status = r.status]
        /\ UNCHANGED <<verifier, taxZkVkey, now, deployed>>
        /\ UNCHANGED <<isConnected, dismissedStatus, manualError, write>>
        /\ UNCHANGED <<jobVars, taxVars, farmVars, storeVars, wizardVars, clubVars>>

\* resetVerification.
ResetVerification ==
    /\ dismissedStatus' = TRUE
    /\ manualError' = "null"
    /\ UNCHANGED <<isConnected, write, sentTxs>>
    /\ UNCHANGED <<regVars, jobVars, taxVars, farmVars, storeVars, wizardVars, clubVars>>

\* The wallet connects or disconnects (useAccount).
WalletToggles ==
    /\ isConnected' = ~isConnected
    /\ UNCHANGED <<dismissedStatus, manualError, write, sentTxs>>
    /\ UNCHANGED <<regVars, jobVars, taxVars, farmVars, storeVars, wizardVars, clubVars>>

(***************************************************************************)
(* The create-club modal (CreateClubModal): it registers an ENS name with  *)
(* a commit transaction, a waiting period and a register transaction.      *)
(* Times are in seconds.                                                   *)
(***************************************************************************)
\* waitEndTime and minCommitmentAge while null or undefined.
NoTime == 0

\* The registrar's minCommitmentAge().
RegistrarMinCommitmentAge == 1

\* A write (useWriteContract) with the receipt query of its hash, before
\* the first call and after reset().
NoWrite == "idle"

\* The seconds between the observed confirmation and the end of the wait.
WaitTime_NoBuffer(age) == age

WaitTime(age) == age + 5

commitSuccess == commitTx = "success"

registerSuccess == registerTx = "success"

\* No call of writeRegister yet.
NotRegistered == [sent |-> FALSE, at |-> NoTime]

ClubIdle ==
    /\ step = "input"
    /\ secret = FALSE
    /\ commitment = FALSE
    /\ waitEndTime = NoTime
    /\ dateNow = 1
    /\ minCommitmentAge = NoTime
    /\ commitTx = NoWrite
    /\ registerTx = NoWrite
    /\ observedAt = NoTime
    /\ registerSent = NotRegistered

ClubOnly ==
    UNCHANGED <<regVars, jobVars, taxVars, farmVars, storeVars, verifyVars,
                wizardVars>>

\* The effect on [commitSuccess, minCommitmentAge], run after a change of
\* either: it starts the waiting period.
CommitEffect(success, age) ==
    IF success /\ age # NoTime
        THEN /\ waitEndTime' = dateNow + WaitTime(age)
             /\ step' = "waiting"
             /\ observedAt' = dateNow
        ELSE UNCHANGED <<waitEndTime, step, observedAt>>

\* The minCommitmentAge query resolves.
MinCommitmentAgeLoads ==
    /\ minCommitmentAge = NoTime
    /\ minCommitmentAge' = RegistrarMinCommitmentAge
    /\ CommitEffect(commitSuccess, minCommitmentAge')
    /\ UNCHANGED <<secret, commitment, dateNow, commitTx, registerTx,
                   registerSent>>
    /\ ClubOnly

\* handleStartRegistration with a connected wallet; the name is available
\* or not.
HandleStartRegistration ==
    /\ step = "input"
    /\ \E isAvailable \in BOOLEAN :
          IF isAvailable
              THEN secret' = TRUE /\ step' = "commit"
              ELSE UNCHANGED <<secret, step>>
    /\ UNCHANGED <<commitment, waitEndTime, dateNow, minCommitmentAge,
                   commitTx, registerTx, observedAt, registerSent>>
    /\ ClubOnly

\* The makeCommitment query resolves and the effect stores the hash.
CommitmentHashLoads ==
    /\ step = "commit"
    /\ secret
    /\ ~commitment
    /\ commitment' = TRUE
    /\ UNCHANGED <<step, secret, waitEndTime, dateNow, minCommitmentAge,
                   commitTx, registerTx, observedAt, registerSent>>
    /\ ClubOnly

\* handleCommit, from the button of step commit.
HandleCommit ==
    /\ step = "commit"
    /\ commitment
    /\ commitTx' = "pending"
    /\ CommitEffect(FALSE, minCommitmentAge)
    /\ UNCHANGED <<secret, commitment, dateNow, minCommitmentAge, registerTx,
                   registerSent>>
    /\ ClubOnly

\* The wallet answers writeCommit: refused, or broadcast.
CommitAnswered ==
    /\ commitTx = "pending"
    /\ commitTx' \in {"error", "confirming"}
    /\ UNCHANGED <<step, secret, commitment, waitEndTime, dateNow,
                   minCommitmentAge, registerTx, observedAt, registerSent>>
    /\ ClubOnly

\* The commit transaction is mined; its receipt query succeeds unless the
\* transaction reverted.
CommitMined ==
    /\ commitTx = "confirming"
    /\ commitTx' \in {"success", "reverted"}
    /\ CommitEffect(commitTx' = "success", minCommitmentAge)
    /\ UNCHANGED <<secret, commitment, dateNow, minCommitmentAge, registerTx,
                   registerSent>>
    /\ ClubOnly

\* A second passes.
Tick ==
    /\ dateNow < MaxClock
    /\ dateNow' = dateNow + 1
    /\ UNCHANGED <<step, secret, commitment, waitEndTime, minCommitmentAge,
                   commitTx, registerTx, observedAt, registerSent>>
    /\ ClubOnly

\* Math.max(0, Math.ceil((waitEndTime - Date.now()) / 1000)).
Remaining == IF waitEndTime > dateNow THEN waitEndTime - dateNow ELSE 0

\* The interval of the countdown effect fires, while the step is waiting.
CountdownFires ==
    /\ step = "waiting"
    /\ waitEndTime # NoTime
    /\ step' = IF Remaining = 0 THEN "register" ELSE step
    /\ UNCHANGED <<secret, commitment, waitEndTime, dateNow, minCommitmentAge,
                   commitTx, registerTx, observedAt, registerSent>>
    /\ ClubOnly

\* handleRegister, from the button of step register; rentPrice has loaded
\* or not.
HandleRegister ==
    /\ step = "register"
    /\ registerTx \in {NoWrite, "error", "reverted"}
    /\ \E rentPrice \in BOOLEAN :
          IF secret /\ rentPrice
              THEN /\ registerTx' = "pending"
                   /\ registerSent' = [sent |-> TRUE, at |-> dateNow]
              ELSE UNCHANGED <<registerTx, registerSent>>
    /\ UNCHANGED <<step, secret, commitment, waitEndTime, dateNow,
                   minCommitmentAge, commitTx, observedAt>>
    /\ ClubOnly

\* The wallet answers writeRegister: refused, or broadcast.
RegisterAnswered ==
    /\ registerTx = "pending"
    /\ registerTx' \in {"error", "confirming"}
    /\ UNCHANGED <<step, secret, commitment, waitEndTime, dateNow,
                   minCommitmentAge, commitTx, observedAt, registerSent>>
    /\ ClubOnly

\* The register transaction is mined; on success the effect shows the
\* success step.
RegisterMined ==
    /\ registerTx = "confirming"
    /\ registerTx' \in {"success", "reverted"}
    /\ step' = IF registerTx' = "success" THEN "success" ELSE step
    /\ UNCHANGED <<secret, commitment, waitEndTime, dateNow, minCommitmentAge,
                   commitTx, observedAt, registerSent>>
    /\ ClubOnly

\* handleClose: every state of the modal is reset.
HandleClose ==
    /\ step' = "input"
    /\ secret' = FALSE
    /\ commitment' = FALSE
    /\ waitEndTime' = NoTime
    /\ commitTx' = NoWrite
    /\ registerTx' = NoWrite
    /\ observedAt' = NoTime
    /\ registerSent' = NotRegistered
    /\ UNCHANGED <<dateNow, minCommitmentAge>>
    /\ ClubOnly

\* Every page of the web app in its initial state.
AppIdle == StoreIdle /\ VerifyIdle /\ Mounted(session) /\ ClubIdle

(***************************************************************************)
(* Specifications.  Spec: the registry on the chain.  JobSpec: the job     *)
(* manager, its worker and the polling client.  TaxSpec: the tax engine    *)
(* called by the TaxPanel.  FarmSpec: DemoToken and YieldFarm.  They share *)
(* no state.                                                               *)
(***************************************************************************)
Init == RegistryInit /\ JobsInit /\ TaxIdle /\ FarmIdle /\ AppIdle

Next ==
    \/ TxVerifyTaxProof
    \/ NewBlock

Spec == Init /\ [][Next]_vars

JobInit == RegistryDeployed /\ JobsInit /\ TaxIdle /\ FarmIdle /\ AppIdle

JobNext ==
    \/ ClientCall
    \/ ClientSubmit
    \/ ClientPoll
    \/ ClientWake
    \/ WorkerComplete
    \/ ObserverStatus

JobSpec == JobInit /\ [][JobNext]_vars

TaxPanelInit ==
    /\ RegistryDeployed /\ JobsInit /\ TaxInit /\ FarmIdle
    /\ StoreIdle /\ VerifyIdle /\ SetupShown /\ ClubIdle

TaxNext ==
    \/ HandleCalculate
    \/ Toggle44ada

TaxSpec == TaxPanelInit /\ [][TaxNext]_vars

FarmDeployed == RegistryDeployed /\ JobsInit /\ TaxIdle /\ FarmInit /\ AppIdle

FarmNext ==
    \/ TxStake
    \/ TxUnstake
    \/ TxClaimRewards
    \/ TxMint
    \/ TxTransfer
    \/ MineBlock

FarmSpec == FarmDeployed /\ [][FarmNext]_vars

ProfitNext ==
    \/ TxDeposit
    \/ TxApprove
    \/ TxMint
    \/ TxTransfer

ProfitSpec == FarmDeployed /\ [][ProfitNext]_vars

VerifyInit == RegistryInit /\ JobsInit /\ TaxIdle /\ FarmIdle /\ AppIdle

VerifyNext ==
    \/ HandleVerify
    \/ WalletAnswers
    \/ MineVerify
    \/ ResetVerification
    \/ WalletToggles

VerifySpec == VerifyInit /\ [][VerifyNext]_vars

ProofNext ==
    \/ HandleCalculate
    \/ HandleGenerateProof
    \/ Toggle44ada
    \/ HandleSync

ProofPanelSpec == TaxPanelInit /\ [][ProofNext]_vars

WalletNext ==
    \/ HandleAddWallet
    \/ HandleAddSelectedEns
    \/ HandleImportAll
    \/ RemoveWallet
    \/ HandleAddGroup
    \/ HandleAssignGroup
    \/ RemoveWalletGroup

WalletSpec == JobInit /\ [][WalletNext]_vars

WizardNext ==
    \/ HandleSelect
    \/ UserTypeContinue
    \/ AtStep(2) /\ HandleAddWallet
    \/ AtStep(2) /\ RemoveWallet
    \/ WalletsContinue
    \/ StepBack
    \/ GroupsContinue
    \/ HandleReset
    \/ HandleFileChange
    \/ PageLoad

WizardSpec == JobInit /\ [][WizardNext]_vars

ClubNext ==
    \/ MinCommitmentAgeLoads
    \/ HandleStartRegistration
    \/ CommitmentHashLoads
    \/ HandleCommit
    \/ CommitAnswered
    \/ CommitMined
    \/ Tick
    \/ CountdownFires
    \/ HandleRegister
    \/ RegisterAnswered
    \/ RegisterMined
    \/ HandleClose

ClubSpec == JobInit /\ [][ClubNext]_vars

(***************************************************************************)
(* Properties of the registry.                                             *)
(***************************************************************************)
\* A transaction has been sent.
Sent == tx.status # "none"

\* C1: when the external verifier rejects (verifyProof reverts), verifyTaxProof
\* reverts, the registry is exactly as before the call and no event is emitted.
C1_VerifierRejectionReverts ==
    (Sent /\ ~tx.accepted) =>
        /\ tx.status = "reverted"
        /\ taxRecords = tx.pre
        /\ tx.logs = << >>

\* A rejected proof for well-formed public values, sent to a registry that
\* already holds a record.
C1_Witness ==
    /\ Sent /\ ~tx.accepted
    /\ AbiDecodable(tx.publicValues)
    /\ \E c \in Commitments : tx.pre[c].verifiedAt > 0

\* C2: after a successful verifyTaxProof whose publicValues decode to
\* (c, t, u, p), the record at c is {t, u, p, the block time of the call, the
\* caller}, whether or not c had a record.
C2_RecordIsDecodedTuple ==
    tx.status = "success" =>
        getTaxRecord(tx.publicValues[1]) =
            [totalTaxPaisa |-> tx.publicValues[2],
             userType      |-> tx.publicValues[3],
             used44ada     |-> (tx.publicValues[4] = 1),
             verifiedAt    |-> tx.time,
             verifiedBy    |-> tx.caller]

\* A successful call with the flag set that overwrites a record of another
\* total, written by another caller in an earlier block.
C2_Witness ==
    /\ tx.status = "success"
    /\ tx.publicValues[4] = 1
    /\ LET old == tx.pre[tx.publicValues[1]] IN
        /\ old.verifiedAt > 0
        /\ old.verifiedAt # tx.time
        /\ old.verifiedBy # tx.caller
        /\ old.totalTaxPaisa # tx.publicValues[2]

\* C3: when publicValues does not decode as (bytes32, uint256, uint8, bool),
\* verifyTaxProof reverts and no record is written or changed, even when the
\* external verifier accepts the proof.
C3_DecodeFailureReverts ==
    (Sent /\ ~AbiDecodable(tx.publicValues)) =>
        /\ tx.status = "reverted"
        /\ taxRecords = tx.pre

\* The verifier accepted, the four words are there, and one does not fit its
\* type; the registry held a record.
C3_Witness ==
    /\ Sent /\ tx.accepted
    /\ Len(tx.publicValues) = 4
    /\ ~AbiDecodable(tx.publicValues)
    /\ \E c \in Commitments : tx.pre[c].verifiedAt > 0

\* C4: isVerified(c) is true exactly when an earlier verifyTaxProof call for c
\* completed successfully, and a commitment reported verified is never later
\* reported unverified.
C4_VerifiedIffSucceeded ==
    /\ [](\A c \in Commitments : isVerified(c) <=> c \in succeeded)
    /\ [][\A c \in Commitments : isVerified(c) => isVerified(c)']_vars

\* One commitment is verified, the other is not, and the latest of several
\* transactions reverted.
C4_Witness ==
    /\ tx.n >= 2
    /\ tx.status = "reverted"
    /\ \E c, e \in Commitments : isVerified(c) /\ ~isVerified(e)

\* C5: a call for a commitment that already has a record is not rejected and
\* not restricted to the first verifying address: if the verifier accepts, the
\* record is replaced and verifiedBy, verifiedAt are those of this call.
C5_AnyCallerOverwrites ==
    (/\ Sent /\ tx.accepted
     /\ AbiDecodable(tx.publicValues)
     /\ tx.pre[tx.publicValues[1]].verifiedAt > 0) =>
        /\ tx.status = "success"
        /\ taxRecords[tx.publicValues[1]].verifiedBy = tx.caller
        /\ taxRecords[tx.publicValues[1]].verifiedAt = tx.time

\* The SP1 verifier accepted a second caller's proof, in a later block, for a
\* commitment another address had recorded.
C5_Witness ==
    /\ Sent /\ tx.accepted
    /\ verifier = "SP1Verifier"
    /\ AbiDecodable(tx.publicValues)
    /\ LET old == tx.pre[tx.publicValues[1]] IN
        /\ old.verifiedAt > 0
        /\ old.verifiedBy # tx.caller
        /\ old.verifiedAt < tx.time

\* C6: taxZkVkey() is the constructor's argument in every state, and every
\* call verifyTaxProof makes to the external verifier passes that hash.
C6_VkeyFixedAtConstruction ==
    /\ taxZkVkey = deployed.taxZkVkey
    /\ \A i \in DOMAIN tx.calls : tx.calls[i].vkey = deployed.taxZkVkey

\* A registry constructed with the other key has called its verifier, which
\* accepted.
C6_Witness ==
    /\ deployed.taxZkVkey # TAX_ZK_VKEY
    /\ Len(tx.calls) = 1
    /\ tx.status = "success"

\* C7: every stored record (verifiedAt nonzero) has a user-type code in
\* {0, 1, 2}.
C7_UserTypeInEnum ==
    \A c \in Commitments :
        taxRecords[c].verifiedAt > 0 => taxRecords[c].userType \in {0, 1, 2}

(***************************************************************************)
(* Properties of the job manager and of the polling client.                *)
(***************************************************************************)
Terminal == {"done", "error"}

\* C8: for every job id the status seen by successive status queries changes
\* at most once: pending until one transition to done or error, and after a
\* query has returned done (or error) every later query returns the same
\* status with the same result (or error message).
C8_StatusChangesAtMostOnce ==
    [][\A id \in JobIds :
        /\ seen[id].status \in Terminal => seen'[id] = seen[id]
        /\ seen[id].status = "pending" =>
               seen'[id].status \in {"pending"} \cup Terminal
        /\ jobs[id].status \in Terminal => jobs'[id] = jobs[id]]_vars

\* The client saw its job pending and then failed, and the latest query for
\* that id, made after the other job also ended, answers error.
C8_Witness ==
    /\ Len(client.log) = 3
    /\ client.log[2].status = "pending"
    /\ client.log[3].status = "error"
    /\ seen[client.jobId].status = "error"
    /\ finished = JobIds

\* C9: right after submit returns a job id the job is pending, and a status
\* query made before the proving run for that job has ended never returns done.
C9_PendingUntilBackendCompletes ==
    \A id \in JobIds :
        /\ (jobs[id].status # "absent" /\ id \notin finished) =>
               Status(id).status = "pending"
        /\ (seen[id].status = "done" => id \in finished)

\* The client submitted, got an id, polled once and was told pending; the
\* proving run has not ended.
C9_Witness ==
    /\ client.pc = "sleep"
    /\ Len(client.log) = 2
    /\ client.log[2].status = "pending"
    /\ client.jobId \notin finished

\* C10: generateProofWithPolling stops polling at the first status response
\* that reports a terminal status: on done it returns the job's result, on
\* error it throws, and it sends no status request for the job afterwards.
C10_PollingStopsAtTerminal ==
    \A i \in DOMAIN client.log :
        (client.log[i].req = "status" /\ client.log[i].status \in Terminal) =>
            /\ i = Len(client.log)
            /\ client.log[i].status = "done" =>
                   /\ client.pc = "returned"
                   /\ client.out = ProofResult(client.request)
            /\ client.log[i].status = "error" =>
                   /\ client.pc = "thrown"
                   /\ client.err # ""

\* The second of two invocations polled twice, pending then done, and returned
\* its own job's result while the first job had failed.
C10_Witness ==
    /\ client.pc = "returned"
    /\ Len(client.log) = 3
    /\ client.log[2].status = "pending"
    /\ client.log[3].status = "done"
    /\ \E id \in JobIds : id # client.jobId /\ jobs[id].status = "error"

Submits(log) == Cardinality({i \in DOMAIN log : log[i].req = "submit"})

\* C11: a proving failure is surfaced and not retried: one invocation of
\* generateProofWithPolling sends exactly one submit request, and after a
\* status response of error it throws without submitting again.
C11_OneSubmitNoRetry ==
    /\ Submits(client.log) <= 1
    /\ client.pc \in {"poll", "sleep", "returned", "thrown"} =>
           /\ Submits(client.log) = 1
           /\ client.log[1].req = "submit"
    /\ (client.log # << >> /\ client.log[Len(client.log)].status = "error") =>
           client.pc = "thrown"

\* The invocation submitted once, saw pending, then error, and threw; its job
\* is in error at the job manager.
C11_Witness ==
    /\ client.pc = "thrown"
    /\ Len(client.log) = 3
    /\ client.log[3].status = "error"
    /\ jobs[client.jobId].status = "error"
    /\ client.err = "prover crashed"

\* C12: a request that fails validation is rejected by submit synchronously
\* and creates no job: no job id is returned, and the client throws without
\* sending a status request.
C12_InvalidRequestRejected ==
    /\ \A id \in JobIds : jobs[id].status # "absent" => jobs[id].request.valid
    /\ (client.log # << >> /\ ~client.request.valid) =>
           /\ client.pc = "thrown"
           /\ client.jobId = UnknownId
           /\ client.log = <<LogEntry("submit", "rejected")>>
           /\ client.err = "validation"

\* An invalid request was rejected while the job manager holds the job of an
\* earlier invocation and has an id free.
C12_Witness ==
    /\ ~client.request.valid
    /\ client.log = <<LogEntry("submit", "rejected")>>
    /\ \E id, free \in JobIds :
        jobs[id].status = "done" /\ jobs[free].status = "absent"

\* C13: a status query for a job id that no submit call has returned fails
\* with NotFound; it does not return a job in status pending, done or error.
C13_UnknownIdNotFound ==
    \A id \in JobIds \cup {UnknownId} :
        /\ id \notin issued =>
               /\ ~Status(id).ok
               /\ Status(id).status = "NotFound"
        /\ seen[id].status \in {"pending"} \cup Terminal => id \in issued

\* Queries for an id never issued and for an id not yet issued were both
\* answered NotFound, while another id has been issued.
C13_Witness ==
    /\ seen[UnknownId].status = "NotFound"
    /\ issued # {}
    /\ \E id \in JobIds : id \notin issued /\ seen[id].status = "NotFound"

\* C14: every successful verifyTaxProof emits exactly one TaxProofVerified
\* event whose fields equal the values written to the record in that call; a
\* reverted call emits none.
C14_OneEventPerSuccess ==
    /\ tx.status = "reverted" => tx.logs = << >>
    /\ tx.status = "success" =>
           /\ Len(tx.logs) = 1
           /\ LET e == tx.logs[1]
                  r == taxRecords[e.ledgerCommitment] IN
               /\ e.ledgerCommitment = tx.publicValues[1]
               /\ e.totalTaxPaisa = r.totalTaxPaisa
               /\ e.userType = r.userType
               /\ e.used44ada = r.used44ada
               /\ e.verifiedBy = r.verifiedBy
               /\ e.verifiedBy = tx.caller

\* A successful call by caller 2 for commitment 2 with user type 3 and the
\* flag set, after an earlier transaction.
C14_Witness ==
    /\ tx.status = "success"
    /\ tx.n = 2
    /\ tx.logs = <<[ledgerCommitment |-> 2, totalTaxPaisa |-> 9,
                    userType |-> 3, used44ada |-> TRUE, verifiedBy |-> 2]>>

(***************************************************************************)
(* Properties of the tax engine as the TaxPanel calls it.                  *)
(***************************************************************************)
\* The request with the presumptive flag flipped and nothing else changed.
FlipFlag(request) == [request EXCEPT !.use_44ada = ~@]

\* The request without its i-th ledger row.
WithoutRow(request, i) ==
    [request EXCEPT
        !.ledger = SubSeq(@, 1, i - 1) \o SubSeq(@, i + 1, Len(@))]

\* The request with one more ledger row.
WithRow(request, row) == [request EXCEPT !.ledger = Append(@, row)]

\* The request with the amount of its i-th ledger row replaced.
WithAmount(request, i, amount) ==
    [request EXCEPT !.ledger[i].amount = amount]

\* Rows of the given categories to add to a request.
ExtraRows(cats) ==
    [asset : VDAAssets, amount : {3}, category : cats, user_override : BOOLEAN]

\* A calculation has returned a breakdown.
Calculated == calculated # NoTaxRequest

\* The rows of the calculated request whose category is in cats.
RowsIn(cats) ==
    {i \in 1..Len(calculated.ledger) : calculated.ledger[i].category \in cats}

\* C15: for user types huf and corporate the request carries the session's
\* stored presumptive flag, and the breakdown returned is the one the same
\* request with the flag flipped yields.
C15_FlagOnlyForIndividual ==
    (Calculated /\ calculated.user_type \in {"huf", "corporate"}) =>
        /\ calculated.use_44ada = session.use44ada
        /\ breakdown = compute(FlipFlag(calculated))

\* A huf session with the flag set and professional income has calculated.
C15_Witness ==
    /\ Calculated
    /\ calculated.user_type = "huf"
    /\ calculated.use_44ada
    /\ ParseDecimal(breakdown.professional_income_inr) > 0
    /\ ParseDecimal(breakdown.professional_tax_inr) > 0

\* C16: removing a row submitted as unknown, internal or fees from the
\* calculated request, or adding such a row to it, changes none of
\* professional income, VDA gains and total tax.
C16_ExcludedRowsUntaxed ==
    Calculated =>
        LET Same(other) ==
                /\ other.professional_income_inr = breakdown.professional_income_inr
                /\ other.vda_gains_inr = breakdown.vda_gains_inr
                /\ other.total_tax_inr = breakdown.total_tax_inr
        IN  /\ \A i \in RowsIn(Excluded) : Same(compute(WithoutRow(calculated, i)))
            /\ \A row \in ExtraRows(Excluded) : Same(compute(WithRow(calculated, row)))

\* A calculation over a ledger with a taxed row and a row the user overrode
\* to an excluded category.
C16_Witness ==
    /\ Calculated
    /\ ParseDecimal(breakdown.total_tax_inr) > 0
    /\ \E i \in RowsIn(Excluded) : calculated.ledger[i].user_override
    /\ RowsIn({"income", "gains"}) # {}

\* C17: the total of every returned breakdown is slab tax - rebate + VDA tax
\* + cess, to within one paisa.
C17_TotalIsSumOfParts ==
    Calculated =>
        LET parts == ParseDecimal(breakdown.professional_tax_inr)
                     - ParseDecimal(breakdown.section_87a_rebate_inr)
                     + ParseDecimal(breakdown.vda_tax_inr)
                     + ParseDecimal(breakdown.cess_inr)
            total == ParseDecimal(breakdown.total_tax_inr)
        IN  /\ total - parts <= 1
            /\ parts - total <= 1

\* A breakdown with a rebate, a VDA tax and a cess, all positive.
C17_Witness ==
    /\ Calculated
    /\ ParseDecimal(breakdown.section_87a_rebate_inr) > 0
    /\ ParseDecimal(breakdown.vda_tax_inr) > 0
    /\ ParseDecimal(breakdown.cess_inr) > 0

\* C18: removing a losses row from the calculated request, adding one, or
\* changing the amount of one changes neither the VDA tax nor the
\* professional (slab) tax.
C18_LossesChangeNoTax ==
    Calculated =>
        LET Same(other) ==
                /\ other.vda_tax_inr = breakdown.vda_tax_inr
                /\ other.professional_tax_inr = breakdown.professional_tax_inr
        IN  /\ \A i \in RowsIn({"losses"}) :
                   /\ Same(compute(WithoutRow(calculated, i)))
                   /\ \A amount \in {0, calculated.ledger[i].amount + 1} :
                          Same(compute(WithAmount(calculated, i, amount)))
            /\ \A row \in ExtraRows({"losses"}) :
                   Same(compute(WithRow(calculated, row)))

\* A calculation over a ledger with a losses row larger than its gains row.
C18_Witness ==
    /\ Calculated
    /\ ParseDecimal(breakdown.vda_tax_inr) > 0
    /\ ParseDecimal(breakdown.vda_losses_inr) > ParseDecimal(breakdown.vda_gains_inr)

(***************************************************************************)
(* Properties of YieldFarm.                                                *)
(***************************************************************************)
\* C19: the rewards minted to a staker never exceed REWARD_RATE percent per
\* block of what that staker had staked during each past block, summed over
\* the blocks (both sides in hundredths of a token).
C19_RewardWithinAccrual ==
    \A a \in Stakers : rewarded[a] * 100 <= accrued[a]

\* C20: an unstake call by an account with a positive stake completes, the
\* farm's balance falls by exactly the staked amount and the stake is zero.
C20_UnstakeReturnsStake ==
    (call.op = "unstake" /\ call.staked > 0) =>
        /\ call.ok
        /\ balanceOf[FarmAddress] = call.farmBalance - call.staked
        /\ stakes[call.sender].amount = 0

C22_OnlyDecodedRecordChanges ==
    /\ verifier = deployed.verifier
    /\ taxZkVkey = deployed.taxZkVkey
    /\ tx.status = "success" =>
           \A c \in Commitments \ {tx.publicValues[1]} :
               taxRecords[c] = tx.pre[c]

\* A successful call changed the record of its commitment while another
\* commitment held a record.
C22_Witness ==
    /\ tx.status = "success"
    /\ taxRecords[tx.publicValues[1]] # tx.pre[tx.publicValues[1]]
    /\ \E c \in Commitments \ {tx.publicValues[1]} : tx.pre[c].verifiedAt > 0

\* C23: a verifyTaxProof call whose publicValues is longer than the four
\* encoded fields reverts.
C23_OversizedReverts ==
    (Sent /\ Len(tx.publicValues) > 4) => tx.status = "reverted"

C25_ProofMatchesSession ==
    session.proofArtifacts # NoProofArtifacts =>
        session.proofArtifacts.request = TaxRequest(session)

\* C28: no two wallets of the session have the same address, compared
\* without regard to case.
C28_AddressesDistinct ==
    \A i, j \in DOMAIN session.wallets :
        ToLowerCase(session.wallets[i].address) =
            ToLowerCase(session.wallets[j].address) => i = j

\* C29: removeWalletGroup(id) leaves no group and no wallet with that id,
\* keeps every other group, and keeps every wallet with all its fields but
\* a groupId that was id.
C29_RemoveGroupFrame ==
    storeOp.op = "removeWalletGroup" =>
        LET before == storeOp.before
            id == storeOp.id
        IN  /\ \A j \in DOMAIN session.walletGroups :
                   session.walletGroups[j].id # id
            /\ \A i \in DOMAIN session.wallets :
                   session.wallets[i].groupId # id
            /\ session.walletGroups =
                   SelectSeq(before.walletGroups, LAMBDA g : g.id # id)
            /\ DOMAIN session.wallets = DOMAIN before.wallets
            /\ \A i \in DOMAIN before.wallets :
                   /\ session.wallets[i].id = before.wallets[i].id
                   /\ session.wallets[i].address = before.wallets[i].address
                   /\ session.wallets[i].label = before.wallets[i].label
                   /\ before.wallets[i].groupId # id =>
                          session.wallets[i].groupId = before.wallets[i].groupId
            /\ [session EXCEPT !.wallets = << >>, !.walletGroups = << >>] =
                   [before EXCEPT !.wallets = << >>, !.walletGroups = << >>]

\* A group with a wallet in it was removed while another group, with a
\* wallet of its own, stayed.
C29_Witness ==
    /\ storeOp.op = "removeWalletGroup"
    /\ \E i \in DOMAIN storeOp.before.wallets :
           storeOp.before.wallets[i].groupId = storeOp.id
    /\ \E i \in DOMAIN session.wallets : session.wallets[i].groupId # NoGroup

\* C26: when importSession has returned true and the page is loaded next,
\* the session after the load is the imported one.
C26_ImportedSessionRestored ==
    [][(/\ storeOp.op = "importSession"
        /\ storeOp.returned
        /\ storeOp'.op = "loadSession") => session' = session]_vars

\* C27: onComplete is called only with a session that has a user type and
\* at least one wallet.
C27_CompleteOnlyWhenSetUp ==
    completed.called =>
        /\ completed.userType # NoUserType
        /\ completed.wallets > 0

(***************************************************************************)
(* Properties of the create-club modal.                                    *)
(***************************************************************************)
\* C30: writeRegister is called only after the commit transaction was seen
\* confirmed and the registrar's minimum commitment age plus 5 seconds
\* have passed since then; and the step becomes register only from
\* waiting, never from input or commit.
C30_RegisterAfterWait ==
    /\ [](registerSent.sent =>
             /\ commitSuccess
             /\ observedAt # NoTime
             /\ registerSent.at >= observedAt + RegistrarMinCommitmentAge + 5)
    /\ [][step' = "register" => step \in {"waiting", "register"}]_vars

\* writeRegister was called exactly when the wait ended.
C30_Witness ==
    /\ registerSent.sent
    /\ registerSent.at = observedAt + RegistrarMinCommitmentAge + 5
    /\ registerTx = "pending"

=============================================================================
